---- MODULE Spec2Model ----
(***************************************************************************)
(* Model of the agent-lens orchestrator (services/orchestrator/src).       *)
(*                                                                         *)
(* Spec        one orchestration run: run_orchestration drives the graph   *)
(*             architect -> coder -> reviewer -> (executor | coder),       *)
(*             executor -> (END | coder), one node invocation per step.    *)
(* RouterSpec  the two routing functions applied to arbitrary states, as   *)
(*             the unit tests of the repository apply them.                *)
(* BusSpec     the EventBroadcaster with its WebSocket sinks and           *)
(*             concurrent run_orchestration tasks emitting through it,     *)
(*             one step per await of emit.                                 *)
(* FactorySpec the InferenceClientFactory under calls of get_client,       *)
(*             complete_with_fallback and process_queue.                   *)
(*                                                                         *)
(* Texts are abstracted to classes: a piece of code is "" (empty), "bad"   *)
(* (the Reviewer's static checks report an issue), "good" (they report     *)
(* none) or "todo" (the placeholder comment Coder writes when it could     *)
(* not extract content).  Messages are abstracted to tags.                 *)
(*                                                                         *)
(* Exceptions are modelled where the code raises them.  Two of them are    *)
(* unconditional in this source tree and shape every run:                  *)
(*  - BaseAgent.run_with_telemetry calls broadcaster.emit_agent_end with   *)
(*    four arguments (base.py:532, 539) while events.py:117 declares three *)
(*    parameters, so the wrapper raises TypeError after every invoke and   *)
(*    every node leaves through its crash bypass;                          *)
(*  - broadcaster.emit is called with plain strings as event type          *)
(*    ("plan_created", "code_reviewed", "execution_step") and              *)
(*    AgentEvent.to_json reads type.value, which a str does not have;      *)
(*    emit_file_created is not a method of EventBroadcaster at all.        *)
(***************************************************************************)
EXTENDS Integers, Sequences, FiniteSets, TLC

VARIABLES
    state,               \* the OrchestratorState flowing through the graph
    node,                \* next graph node to run, or "END"
    step,                \* node invocations (super-steps) done in this run
    status,              \* "running" | "returned" | "raised" | "unit"
    route,               \* result of the last routing function call
    disk,                \* files present in WORKSPACE_DIR
    cmd_results,         \* exit status (TRUE = 0) of each command Executor ran
    llm_outputs,         \* code class of each LLM answer Coder received
    runs,                \* invocations of each node and uses of each loop edge
    reviews_since_exec,  \* Reviewer invocations since the last Executor one
    raised,              \* did run_with_telemetry raise in the last invocation
    bus,                 \* the EventBroadcaster, its sinks and the emitting tasks
    factory,             \* the InferenceClientFactory and its last call
    unit                 \* the component call a unit specification applies:
                         \* its inputs, its locals and its result

vars == <<state, node, step, status, route, disk, cmd_results, llm_outputs,
          runs, reviews_since_exec, raised, bus, factory, unit>>

\* no component call is being applied
NoUnit == [op |-> ""]

\* the variables of one orchestration run
RunVars == <<state, node, step, status, route, disk, cmd_results, llm_outputs,
             runs, reviews_since_exec, raised>>

(***************************************************************************)
(* Bounds of the model                                                     *)
(***************************************************************************)
MaxFiles == 2        \* most files an LLM-made plan lists
MaxSteps == 1        \* most execution steps an LLM-made plan lists
MaxSinks == 2        \* WebSocket clients of /ws/events
MaxTasks == 2        \* concurrent run_orchestration calls
MaxInvocations == 1  \* agent invocations modelled per run in BusSpec
MaxRequests == 2     \* complete_with_fallback calls made in FactorySpec
MaxQueued == 3       \* requests queued when process_queue is called
MaxLines == 3        \* lines of a streamed completion
MaxAttempt == 10     \* largest attempt number get_delay is asked for
MaxMessages == 4     \* add_message calls on one conversation
MaxCompressions == 2 \* compress_context calls on one conversation
MaxKeepRecent == 3   \* largest keep_recent passed to compress_context
MaxDepth == 3        \* names in a path argument
MaxPlanSteps == 3    \* steps of the plan Executor is invoked on
MaxLLMCalls == 2     \* LLM calls that answer in one agent invocation

(***************************************************************************)
(* Program constants                                                       *)
(***************************************************************************)
DefaultMaxRetries == 3
DefaultMaxReviewAttempts == 2
RecursionLimit == 50
EmitAgentEndParams == 3
EmitAgentEndArgs == 4
MaxOOMFallbacks == 2
MaxQueueSize == 10
MaxReconnectAttempts == 5
BackoffBase == 2
MaxBackoff == 30
TokenChars == 4
SummaryChars == 100
SummaryHeadChars == 31
DefaultMaxContextTokens == 4096
TestMaxContextTokens == 100
RequestMaxRetries == 10     \* OrchestrationRequest.max_retries: le=10

Agents == {"architect", "coder", "reviewer", "executor"}
LoopEdges == {"fix", "retry"}

PlanPaths == <<"main.py", "utils.py", "config.py", "models.py">>
SingleFile == "gen.py"

(***************************************************************************)
(* events.py                                                               *)
(***************************************************************************)
EventType ==
    {"agent_start", "agent_end", "token", "code_written", "execution",
     "retry", "error", "complete"}

\* an EventType member passed as the event type
Member(v) == [enum |-> TRUE, value |-> v]
\* a plain str passed as the event type
Raw(v) == [enum |-> FALSE, value |-> v]

\* AgentEvent.to_json reads self.type.value: a plain str has no .value
to_json_raises(t) == ~t.enum

\* EventBroadcaster.emit builds the message first; failing sinks are caught
emit_raises(t) == to_json_raises(t)

BroadcasterMethods ==
    {"connect", "disconnect", "emit", "emit_agent_start", "emit_agent_end",
     "emit_code_written", "emit_execution", "emit_error"}

\* calling a method the broadcaster does not define raises AttributeError
call_raises(m) == m \notin BroadcasterMethods

\* emit_agent_end is called with EmitAgentEndArgs positional arguments
emit_agent_end_raises == EmitAgentEndArgs # EmitAgentEndParams

(***************************************************************************)
(* state.py                                                                *)
(***************************************************************************)
NoPlan == [src |-> "empty", subtasks |-> <<>>]
NoExecutionPlan == [present |-> FALSE, steps |-> <<>>]

InitialState ==
    [plan |-> NoPlan,
     planned_files |-> <<>>,
     execution_plan |-> NoExecutionPlan,
     code |-> "",
     file_path |-> "",
     review_passed |-> FALSE,
     review_feedback |-> "",
     review_attempts |-> 0,
     max_review_attempts |-> DefaultMaxReviewAttempts,
     execution_output |-> "",
     execution_success |-> FALSE,
     current_agent |-> "",
     error_count |-> 0,
     max_retries |-> DefaultMaxRetries,
     history |-> <<>>,
     workspace_files |-> <<>>]

add_history(s, agent, action, result) ==
    [s EXCEPT !.history =
        Append(@, [agent |-> agent, action |-> action, result |-> result])]

\* workspace_files is kept as a sequence of <<path, content>> pairs in
\* insertion order; assigning an existing key replaces its value in place
RECURSIVE put(_, _, _)
put(files, path, content) ==
    IF files = <<>> THEN <<<<path, content>>>>
    ELSE IF Head(files)[1] = path THEN <<<<path, content>>>> \o Tail(files)
    ELSE <<Head(files)>> \o put(Tail(files), path, content)

add_file(s, path, content) ==
    [s EXCEPT !.workspace_files = put(@, path, content)]

\* variant: the cap is compared with <= instead of <
can_retry_le(s) == s.error_count <= s.max_retries

can_retry(s) == s.error_count < s.max_retries

can_retry_review(s) == s.review_attempts < s.max_review_attempts


\* state.current_agent = self.name, done by run_with_telemetry before invoke
set_agent(s, name) == [s EXCEPT !.current_agent = name]

\* result of an invoke that returned / that raised
Returned(s) == [raised |-> FALSE, err |-> "", state |-> s]
Raised(s, e) == [raised |-> TRUE, err |-> e, state |-> s]

(***************************************************************************)
(* agents/base.py                                                          *)
(***************************************************************************)
\* r is what invoke did; the success path awaits emit_agent_end inside the
\* try block, the except path awaits it again before emit_error and raise
run_with_telemetry(r) ==
    IF emit_agent_end_raises
    THEN [r EXCEPT !.raised = TRUE, !.err = "TypeError"]
    ELSE r

(***************************************************************************)
(* agents/architect.py                                                     *)
(***************************************************************************)
\* what the LLM call of Architect can do: raise, answer something the parser
\* rejects, or answer a plan with some files and some execution steps
ArchitectLLM ==
    [raises : {TRUE}, parsed : {FALSE}, files : {0}, steps : {0}]
    \cup [raises : {FALSE}, parsed : {FALSE}, files : {0}, steps : {0}]
    \cup [raises : {FALSE}, parsed : {TRUE}, files : 0..MaxFiles,
          steps : 0..MaxSteps]

FallbackPlan == [files |-> 2, steps |-> 1]

NewFileSpec(i) == [path |-> PlanPaths[i], content |-> "", generated |-> FALSE]

ArchitectInvoke(s, llm) ==
    IF llm.raises THEN Raised(s, "LLMError")
    ELSE
      LET plan_data == IF llm.parsed
                       THEN [files |-> llm.files, steps |-> llm.steps]
                       ELSE FallbackPlan
          planned_files == [i \in 1..plan_data.files |-> NewFileSpec(i)]
          execution_steps == [i \in 1..plan_data.steps |-> "foreground"]
      IN IF emit_raises(Raw("plan_created")) THEN Raised(s, "AttributeError")
         ELSE Returned(add_history(
                [s EXCEPT !.plan = [src |-> IF llm.parsed THEN "llm"
                                            ELSE "fallback",
                                    subtasks |-> <<>>],
                          !.planned_files = planned_files,
                          !.execution_plan = [present |-> TRUE,
                                              steps |-> execution_steps]],
                "architect", "plan", "Created plan"))

(***************************************************************************)
(* agents/coder.py                                                         *)
(***************************************************************************)
\* what one LLM answer gives Coder: the call raises, or the extracted
\* content is empty, has review issues, or is clean
CoderLLM == {"raise", "", "bad", "good"}

\* CoderAgent._generate_single_file; r carries the disk as well
_generate_single_file(s, d, llm) ==
    IF llm = "raise"
    THEN [raised |-> TRUE, err |-> "LLMError", state |-> s, disk |-> d,
          calls |-> 1]
    ELSE IF emit_raises(Member("code_written"))
    THEN [raised |-> TRUE, err |-> "AttributeError", state |-> s,
          disk |-> d \cup {SingleFile}, calls |-> 1]
    ELSE [raised |-> FALSE, err |-> "",
          state |-> add_file([s EXCEPT !.code = llm,
                                       !.file_path = SingleFile],
                             SingleFile, llm),
          disk |-> d \cup {SingleFile}, calls |-> 1]

\* the for loop of CoderAgent.invoke, from file i on
RECURSIVE generate_files(_, _, _)
generate_files(r, i, llm) ==
    IF i > Len(r.state.planned_files) THEN r
    ELSE IF r.state.planned_files[i].generated
    THEN generate_files(r, i + 1, llm)
    ELSE IF llm = "raise"
    THEN [r EXCEPT !.raised = TRUE, !.err = "LLMError", !.calls = @ + 1]
    ELSE
      LET content == IF llm = "" THEN "todo" ELSE llm
          path == r.state.planned_files[i].path
          s1 == add_file(
                  [r.state EXCEPT !.planned_files[i].content = content,
                                  !.planned_files[i].generated = TRUE],
                  path, content)
          r1 == [r EXCEPT !.state = s1, !.disk = @ \cup {path},
                          !.calls = @ + 1]
      IN IF call_raises("emit_file_created")
         THEN [r1 EXCEPT !.raised = TRUE, !.err = "AttributeError"]
         ELSE generate_files(r1, i + 1, llm)

CoderInvoke(s, d, llm) ==
    IF Len(s.planned_files) = 0 THEN _generate_single_file(s, d, llm)
    ELSE
      LET r == generate_files([raised |-> FALSE, err |-> "", state |-> s,
                               disk |-> d, calls |-> 0], 1, llm)
          last_file == r.state.planned_files[Len(r.state.planned_files)]
      IN IF r.raised THEN r
         ELSE [r EXCEPT !.state =
                 add_history([r.state EXCEPT !.code = last_file.content,
                                             !.file_path = last_file.path],
                             "coder", "generate", "Generated files")]

(***************************************************************************)
(* agents/reviewer.py                                                      *)
(***************************************************************************)
ReviewerInvoke(s) ==
    IF s.code = ""
    THEN Returned(add_history(
           [s EXCEPT !.review_passed = FALSE,
                     !.review_feedback = "No code to review"],
           "reviewer", "review", "No code to review"))
    ELSE
      LET passed == s.code # "bad"
          s1 == [s EXCEPT !.review_passed = passed,
                          !.review_feedback = IF passed
                                              THEN "All checks passed"
                                              ELSE "issues",
                          !.review_attempts = @ + 1]
      IN IF emit_raises(Raw("code_reviewed"))
         THEN Raised(s1, "AttributeError")
         ELSE Returned(add_history(s1, "reviewer", "review",
                                   IF passed THEN "passed" ELSE "failed"))

(***************************************************************************)
(* agents/executor.py                                                      *)
(***************************************************************************)
\* ExecutorAgent._fallback_execution; ok is the exit status of the command
\* (_run_command catches everything and never raises).  Every file of the
\* modelled workspace is a .py file, so the glob finds one iff disk # {}.
_fallback_execution(s, d, ok) ==
    IF "main.py" \in d \/ s.file_path # "" \/ d # {}
    THEN [raised |-> FALSE, err |-> "", ran |-> TRUE,
          state |-> add_history(
                      [s EXCEPT !.execution_output = "output",
                                !.execution_success = ok],
                      "executor", "execute", "Fallback execution")]
    ELSE [raised |-> FALSE, err |-> "", ran |-> FALSE,
          state |-> [s EXCEPT
                       !.execution_output = "No executable files found",
                       !.execution_success = FALSE]]

\* ok: every step exits 0; otherwise the first step fails and the loop stops
ExecutorInvoke(s, d, ok) ==
    IF ~s.execution_plan.present \/ Len(s.execution_plan.steps) = 0
    THEN _fallback_execution(s, d, ok)
    ELSE IF emit_raises(Raw("execution_step"))
    THEN [raised |-> TRUE, err |-> "AttributeError", ran |-> FALSE,
          state |-> s]
    ELSE [raised |-> FALSE, err |-> "", ran |-> TRUE,
          state |-> add_history(
                      [s EXCEPT !.execution_output = "output",
                                !.execution_success = ok],
                      "executor", "execute", "Ran steps")]


(***************************************************************************)
(* graph.py: node functions with crash bypass                              *)
(***************************************************************************)
BypassPlan == [src |-> "bypass", subtasks |-> <<1>>]

architect_node(s, llm) ==
    LET r == run_with_telemetry(ArchitectInvoke(set_agent(s, "architect"), llm))
    IN IF ~r.raised THEN r.state
       ELSE add_history([r.state EXCEPT !.plan = BypassPlan],
                        "architect", "bypass", r.err)

\* variant: the bypass of coder_node forgets its history entry
coder_node_silent(s, d, llm) ==
    LET r == run_with_telemetry(CoderInvoke(set_agent(s, "coder"), d, llm))
    IN [disk |-> r.disk, calls |-> r.calls,
        state |-> IF ~r.raised THEN r.state
                  ELSE [r.state EXCEPT !.code = "",
                                       !.execution_success = FALSE]]

\* returns the state, the disk and the number of LLM calls made
coder_node(s, d, llm) ==
    LET r == run_with_telemetry(CoderInvoke(set_agent(s, "coder"), d, llm))
    IN [disk |-> r.disk, calls |-> r.calls,
        state |-> IF ~r.raised THEN r.state
                  ELSE add_history([r.state EXCEPT !.code = "",
                                                   !.execution_success = FALSE],
                                   "coder", "crash", r.err)]

\* variant: the bypass of reviewer_node leaves the review failed
reviewer_node_strict(s) ==
    LET r == run_with_telemetry(ReviewerInvoke(set_agent(s, "reviewer")))
    IN IF ~r.raised THEN r.state
       ELSE add_history(
              [r.state EXCEPT !.review_passed = FALSE,
                              !.review_feedback = "Skipped due to error"],
              "reviewer", "bypass", r.err)

reviewer_node(s) ==
    LET r == run_with_telemetry(ReviewerInvoke(set_agent(s, "reviewer")))
    IN IF ~r.raised THEN r.state
       ELSE add_history(
              [r.state EXCEPT !.review_passed = TRUE,
                              !.review_feedback = "Skipped due to error"],
              "reviewer", "bypass", r.err)

\* returns the state and whether a command was run
executor_node(s, d, ok) ==
    LET r == run_with_telemetry(ExecutorInvoke(set_agent(s, "executor"), d, ok))
    IN [ran |-> r.ran,
        state |-> IF ~r.raised THEN r.state
                  ELSE add_history(
                         [r.state EXCEPT !.execution_success = FALSE,
                                         !.execution_output = "Executor error"],
                         "executor", "crash", r.err)]

(***************************************************************************)
(* graph.py: routing                                                       *)
(***************************************************************************)
\* variant: a failed review is always sent back to Coder
should_execute_or_fix_nocap(s) ==
    IF s.review_passed THEN "execute" ELSE "fix"

should_execute_or_fix(s) ==
    IF s.review_passed THEN "execute"
    ELSE IF can_retry_review(s) THEN "fix"
    ELSE "execute"

\* variant: the retry branch forgets to reset the review counter
should_retry_or_end_noreset(s) ==
    IF s.execution_success THEN [route |-> "end", state |-> s]
    ELSE IF can_retry(s)
    THEN [route |-> "retry",
          state |-> [s EXCEPT !.error_count = @ + 1,
                              !.review_passed = FALSE]]
    ELSE [route |-> "end", state |-> s]

\* variant: the retry branch also clears what the failed attempt left
should_retry_or_end_clears(s) ==
    IF s.execution_success THEN [route |-> "end", state |-> s]
    ELSE IF can_retry(s)
    THEN [route |-> "retry",
          state |-> [s EXCEPT !.error_count = @ + 1,
                              !.review_attempts = 0,
                              !.review_passed = FALSE,
                              !.code = "",
                              !.execution_output = ""]]
    ELSE [route |-> "end", state |-> s]

\* returns the route and the state as the function leaves it
should_retry_or_end(s) ==
    IF s.execution_success THEN [route |-> "end", state |-> s]
    ELSE IF can_retry(s)
    THEN [route |-> "retry",
          state |-> [s EXCEPT !.error_count = @ + 1,
                              !.review_attempts = 0,
                              !.review_passed = FALSE]]
    ELSE [route |-> "end", state |-> s]

\* the edge tables of build_orchestration_graph
AfterReviewer(r) == IF r = "execute" THEN "executor" ELSE "coder"
AfterExecutor(r) == IF r = "retry" THEN "coder" ELSE "END"

(***************************************************************************)
(* inference_client.py: InferenceClientFactory                             *)
(***************************************************************************)
\* the keys of TIERED_MODELS in their order, and the model of each tier
Tiers == <<"large", "medium", "small">>

TierModel(tier) ==
    CASE tier = "large" -> "meta-llama/Llama-3.1-8B-Instruct"
      [] tier = "medium" -> "microsoft/phi-2"
      [] tier = "small" -> "TinyLlama/TinyLlama-1.1B-Chat-v1.0"

TierIndex(tier) == CHOOSE i \in 1..Len(Tiers) : Tiers[i] = tier

\* what client.complete can do: answer ("ok") or raise with one of these
\* messages
Messages ==
    {"CUDA out of memory", "Connection refused", "cudaErrorLaunchTimeout",
     "Internal Server Error"}

\* "out of memory" in msg or "oom" in msg or "cuda" in msg, msg lower-cased
is_oom(msg) == msg \in {"CUDA out of memory", "cudaErrorLaunchTimeout"}

\* "connection" in msg or "timeout" in msg, msg lower-cased
is_disconnect(msg) == msg \in {"Connection refused", "cudaErrorLaunchTimeout"}

\* the results of the health probes one get_client call may make
Probes == [active : BOOLEAN, primary : BOOLEAN, fallback : BOOLEAN]

\* the call of complete_with_fallback in progress or last finished: where
\* it is, its request and request.model, the message of the first failure,
\* how often client.complete was called with the request, whether the
\* request was queued, the sleep, and how the call ended
NoCall ==
    [pc |-> "idle", request |-> 0, model |-> "",
     error |-> "", completes |-> 0, enqueued |-> FALSE, delay |-> 0,
     result |-> "", exc |-> "", msg |-> ""]

NoProbe == [client |-> "none", probes |-> <<>>]

\* InferenceClientFactory.__init__; op names the last method that ran, got
\* is what a get_client call probed and returned, processed is the request
\* process_queue issued last
FactoryIdle ==
    [fallback_url |-> FALSE,
     primary_client |-> FALSE,
     fallback_client |-> FALSE,
     active_client |-> "none",
     oom_count |-> 0,
     current_tier |-> "large",
     request_queue |-> <<>>,
     reconnect_attempts |-> 0,
     calls |-> 0,
     op |-> "",
     got |-> NoProbe,
     processed |-> 0,
     call |-> NoCall]

\* variant: a healthy probe of the primary or the fallback is returned without
\* being made the active client
get_client_noactivate(f, h) ==
    IF f.active_client # "none" /\ h.active
    THEN [f EXCEPT !.reconnect_attempts = 0,
                   !.got = [client |-> f.active_client,
                            probes |-> <<<<f.active_client, TRUE>>>>]]
    ELSE
      LET first == IF f.active_client # "none"
                   THEN <<<<f.active_client, FALSE>>>> ELSE <<>>
          f1 == [f EXCEPT !.primary_client = TRUE]
      IN IF h.primary
         THEN [f1 EXCEPT !.got = [client |-> "primary",
                                  probes |-> first \o <<<<"primary", TRUE>>>>]]
         ELSE IF f.fallback_url
         THEN LET f2 == [f1 EXCEPT !.fallback_client = TRUE]
                  ps == first \o <<<<"primary", FALSE>>,
                                   <<"fallback", h.fallback>>>>
              IN IF h.fallback
                 THEN [f2 EXCEPT !.got = [client |-> "fallback",
                                          probes |-> ps]]
                 ELSE [f2 EXCEPT !.active_client = "primary",
                                 !.got = [client |-> "primary",
                                          probes |-> ps]]
         ELSE [f1 EXCEPT !.active_client = "primary",
                         !.got = [client |-> "primary",
                                  probes |-> first \o <<<<"primary", FALSE>>>>]]

\* InferenceClientFactory.get_client; h are the results of the probes it
\* makes; the client it returns is left in got.client
get_client(f, h) ==
    IF f.active_client # "none" /\ h.active
    THEN [f EXCEPT !.reconnect_attempts = 0,
                   !.got = [client |-> f.active_client,
                            probes |-> <<<<f.active_client, TRUE>>>>]]
    ELSE
      LET first == IF f.active_client # "none"
                   THEN <<<<f.active_client, FALSE>>>> ELSE <<>>
          f1 == [f EXCEPT !.primary_client = TRUE]
      IN IF h.primary
         THEN [f1 EXCEPT !.active_client = "primary",
                         !.got = [client |-> "primary",
                                  probes |-> first \o <<<<"primary", TRUE>>>>]]
         ELSE IF f.fallback_url
         THEN LET f2 == [f1 EXCEPT !.fallback_client = TRUE]
                  ps == first \o <<<<"primary", FALSE>>,
                                   <<"fallback", h.fallback>>>>
              IN IF h.fallback
                 THEN [f2 EXCEPT !.active_client = "fallback",
                                 !.got = [client |-> "fallback",
                                          probes |-> ps]]
                 ELSE [f2 EXCEPT !.active_client = "primary",
                                 !.got = [client |-> "primary",
                                          probes |-> ps]]
         ELSE [f1 EXCEPT !.active_client = "primary",
                         !.got = [client |-> "primary",
                                  probes |-> first \o <<<<"primary", FALSE>>>>]]

\* the call ends by returning a response / by raising exc(msg)
Respond(f) == [f EXCEPT !.call.pc = "done", !.call.result = "response"]
Raise(f, exc, msg) ==
    [f EXCEPT !.call.pc = "done", !.call.result = "raised",
              !.call.exc = exc, !.call.msg = msg]

Min(a, b) == IF a < b THEN a ELSE b

\* variant: the downgrade goes straight to the smallest tier
handle_oom_error_smallest(f, msg) ==
    LET f1 == [f EXCEPT !.oom_count = @ + 1]
        current_idx == TierIndex(f.current_tier)
    IN IF f1.oom_count > MaxOOMFallbacks
       THEN Raise(f1, "OOMError", msg)
       ELSE IF current_idx < Len(Tiers)
       THEN [f1 EXCEPT !.current_tier = Tiers[Len(Tiers)],
                       !.call.model = TierModel(Tiers[Len(Tiers)]),
                       !.call.pc = "retrying"]
       ELSE Raise(f1, "OOMError", msg)

\* _handle_oom_error up to its first await: count, give up or downgrade
handle_oom_error(f, msg) ==
    LET f1 == [f EXCEPT !.oom_count = @ + 1]
        current_idx == TierIndex(f.current_tier)
    IN IF f1.oom_count > MaxOOMFallbacks
       THEN Raise(f1, "OOMError", msg)
       ELSE IF current_idx < Len(Tiers)
       THEN [f1 EXCEPT !.current_tier = Tiers[current_idx + 1],
                       !.call.model = TierModel(Tiers[current_idx + 1]),
                       !.call.pc = "retrying"]
       ELSE Raise(f1, "OOMError", msg)

\* the rest of _handle_oom_error: get a client and retry; whatever the retry
\* raises leaves the method as it is
oom_retry(f, h, c) ==
    LET f1 == [get_client(f, h) EXCEPT !.call.completes = @ + 1]
    IN IF c = "ok" THEN Respond(f1) ELSE Raise(f1, "Exception", c)

\* variant: the request is queued without looking at the queue's length
handle_disconnect_nobound(f, msg) ==
    LET f1 == [f EXCEPT !.reconnect_attempts = @ + 1]
    IN IF f1.reconnect_attempts > MaxReconnectAttempts
       THEN Raise(f1, "InferenceDisconnectError", msg)
       ELSE [f1 EXCEPT
               !.request_queue = Append(@, f.call.request),
               !.call.enqueued = TRUE,
               !.call.delay = Min(BackoffBase ^ f1.reconnect_attempts,
                                  MaxBackoff),
               !.call.pc = "sleeping"]

\* variant: the backoff is not capped
handle_disconnect_nocap(f, msg) ==
    LET f1 == [f EXCEPT !.reconnect_attempts = @ + 1]
        room == Len(f.request_queue) < MaxQueueSize
    IN IF f1.reconnect_attempts > MaxReconnectAttempts
       THEN Raise(f1, "InferenceDisconnectError", msg)
       ELSE [f1 EXCEPT
               !.request_queue = IF room THEN Append(@, f.call.request)
                                 ELSE @,
               !.call.enqueued = room,
               !.call.delay = BackoffBase ^ f1.reconnect_attempts,
               !.call.pc = "sleeping"]

\* _handle_disconnect up to its sleep: count, give up or queue the request
handle_disconnect(f, msg) ==
    LET f1 == [f EXCEPT !.reconnect_attempts = @ + 1]
        room == Len(f.request_queue) < MaxQueueSize
    IN IF f1.reconnect_attempts > MaxReconnectAttempts
       THEN Raise(f1, "InferenceDisconnectError", msg)
       ELSE [f1 EXCEPT
               !.request_queue = IF room THEN Append(@, f.call.request)
                                 ELSE @,
               !.call.enqueued = room,
               !.call.delay = Min(BackoffBase ^ f1.reconnect_attempts,
                                  MaxBackoff),
               !.call.pc = "sleeping"]

\* the rest of _handle_disconnect, after the sleep: re-select a client, probe
\* it (healthy) and retry the request on it, or give up
reconnect(f, h, healthy, c) ==
    LET f1 == get_client([f EXCEPT !.active_client = "none"], h)
    IN IF healthy
       THEN LET f2 == [f1 EXCEPT !.call.completes = @ + 1]
            IN IF c = "ok" THEN Respond(f2) ELSE Raise(f2, "Exception", c)
       ELSE Raise(f1, "InferenceDisconnectError", f.call.error)

\* complete_with_fallback up to the first await of its error handling
complete_with_fallback(f, req, h, c) ==
    LET f0 == [f EXCEPT
                 !.calls = @ + 1,
                 !.call = [NoCall EXCEPT
                             !.pc = "trying", !.request = req,
                             !.model = "default",
                             !.completes = 1]]
        f1 == get_client(f0, h)
        f2 == [f1 EXCEPT !.call.error = c]
    IN IF c = "ok" THEN Respond([f1 EXCEPT !.oom_count = 0])
       ELSE IF is_oom(c) THEN handle_oom_error(f2, c)
       ELSE IF is_disconnect(c) THEN handle_disconnect(f2, c)
       ELSE Raise(f2, "Exception", c)

\* variant: the oldest request is issued but left at the head of the queue
process_queue_peek(f, h) ==
    LET f1 == [f EXCEPT !.processed = Head(f.request_queue)]
    IN get_client(f1, h)

\* one turn of the loop of process_queue: the oldest request is taken off
\* the queue and issued; a failure is logged and dropped
process_queue(f, h) ==
    LET f1 == [f EXCEPT !.request_queue = Tail(@),
                        !.processed = Head(f.request_queue)]
    IN get_client(f1, h)

(***************************************************************************)
(* events.py: the EventBroadcaster and its sinks                           *)
(***************************************************************************)
Sinks == 1..MaxSinks
Tasks == 1..MaxTasks

\* an AgentEvent; data is the success flag of agent_end, "" otherwise
Event(type, agent, data) == [type |-> type, agent |-> agent, data |-> data]

\* the local variables of an emit: the copied connection list, the index
\* of the next connection to send to, the failed list; sent is the set of
\* connections whose send_text returned.  They are kept after the emit has
\* returned (active = FALSE) until the task's next emit
NoEmit ==
    [active |-> FALSE, conns |-> <<>>, i |-> 0, failed |-> <<>>, sent |-> {}]

NoInvocation ==
    [agent |-> "", first |-> 0, invoke_raised |-> FALSE, invoke_err |-> "",
     raised |-> FALSE, err |-> ""]

\* a coroutine that emits: todo are the emits it still has to make before it
\* reaches `then`, emitted are the events it has handed to emit so far
IdleTask ==
    [pc |-> "idle", then |-> "idle", todo |-> <<>>, emitted |-> <<>>,
     em |-> NoEmit, invocations |-> 0, inv |-> NoInvocation]

\* EventBroadcaster.__init__, with no WebSocket accepted yet.  A sink is
\* "new" (not accepted yet), "open", "closed" (its peer is gone: send_text
\* raises) or "gone" (the endpoint has handled the disconnect).  received
\* holds, per open sink and task, the indices in the task's emitted of the
\* messages the sink got; joined the length of emitted when the sink connected
BusIdle ==
    [connections |-> <<>>,
     sink |-> [s \in Sinks |-> "new"],
     received |-> [s \in Sinks |-> [t \in Tasks |-> <<>>]],
     joined |-> [s \in Sinks |-> [t \in Tasks |-> 0]],
     task |-> [t \in Tasks |-> IdleTask]]

Without(seq, set) == SelectSeq(seq, LAMBDA x : x \notin set)
Range(seq) == {seq[i] : i \in 1..Len(seq)}

\* EventBroadcaster.connect
connect(b, s) ==
    [b EXCEPT !.sink[s] = "open",
              !.connections = Append(@, s),
              !.joined[s] = [t \in Tasks |-> Len(b.task[t].emitted)]]

\* EventBroadcaster.disconnect
disconnect(b, s) ==
    [b EXCEPT !.sink[s] = "gone",
              !.connections = IF s \in Range(@) THEN Without(@, {s}) ELSE @]

\* variant: the cleanup drops every connection the emit had copied
emit_end_dropall(b, t) ==
    LET em == b.task[t].em
    IN [b EXCEPT !.connections = IF em.failed # <<>>
                                 THEN Without(@, Range(em.conns)) ELSE @,
                 !.task[t].em.active = FALSE,
                 !.task[t].pc = IF b.task[t].todo = <<>>
                                THEN b.task[t].then ELSE @]

\* the cleanup of emit: failed connections are removed; emit returns, and
\* the task goes on to its next emit or to where it was heading.  The lock
\* is only ever held between two awaits, so taking it never suspends
emit_end(b, t) ==
    LET em == b.task[t].em
    IN [b EXCEPT !.connections = IF em.failed # <<>>
                                 THEN Without(@, Range(em.failed)) ELSE @,
                 !.task[t].em.active = FALSE,
                 !.task[t].pc = IF b.task[t].todo = <<>>
                                THEN b.task[t].then ELSE @]

\* emit up to its first await: build the message, copy the connection list;
\* with no connection there is no await and emit returns at once
emit_begin(b, t) ==
    LET e == Head(b.task[t].todo)
        b1 == [b EXCEPT !.task[t].todo = Tail(@),
                        !.task[t].emitted = Append(@, e),
                        !.task[t].em = [active |-> TRUE,
                                        conns |-> b.connections,
                                        i |-> 1, failed |-> <<>>,
                                        sent |-> {}]]
    IN IF emit_raises(e.type)
       THEN [b EXCEPT !.task[t].todo = <<>>, !.task[t].pc = "raised"]
       ELSE IF b.connections = <<>> THEN emit_end(b1, t)
       ELSE b1

\* variant: the send loop walks the subscriber list itself, not a copy
emit_send_live(b, t) ==
    LET em == b.task[t].em
        live == b.connections
    IN IF em.i > Len(live) THEN emit_end(b, t)
       ELSE LET s == live[em.i]
                b1 == IF b.sink[s] = "open"
                      THEN [b EXCEPT !.received[s][t] =
                                         Append(@, Len(b.task[t].emitted)),
                                     !.task[t].em.sent = @ \cup {s},
                                     !.task[t].em.i = @ + 1]
                      ELSE [b EXCEPT !.task[t].em.failed = Append(@, s),
                                     !.task[t].em.i = @ + 1]
            IN IF b1.task[t].em.i > Len(live) THEN emit_end(b1, t) ELSE b1

\* variant: the send loop stops at the first sink that fails
emit_send_abort(b, t) ==
    LET em == b.task[t].em
        s == em.conns[em.i]
        b1 == IF b.sink[s] = "open"
              THEN [b EXCEPT !.received[s][t] =
                                 Append(@, Len(b.task[t].emitted)),
                             !.task[t].em.sent = @ \cup {s},
                             !.task[t].em.i = @ + 1]
              ELSE [b EXCEPT !.task[t].em.failed = Append(@, s),
                             !.task[t].em.i = Len(em.conns) + 1]
    IN IF b1.task[t].em.i > Len(em.conns) THEN emit_end(b1, t) ELSE b1

\* one turn of the send loop, await websocket.send_text(message) in a try
\* block; after the last turn the cleanup follows without an await
emit_send(b, t) ==
    LET em == b.task[t].em
        s == em.conns[em.i]
        b1 == IF b.sink[s] = "open"
              THEN [b EXCEPT !.received[s][t] =
                                 Append(@, Len(b.task[t].emitted)),
                             !.task[t].em.sent = @ \cup {s},
                             !.task[t].em.i = @ + 1]
              ELSE [b EXCEPT !.task[t].em.failed = Append(@, s),
                             !.task[t].em.i = @ + 1]
    IN IF b1.task[t].em.i > Len(em.conns) THEN emit_end(b1, t) ELSE b1

(***************************************************************************)
(* The events of run_with_telemetry and of run_orchestration               *)
(***************************************************************************)
\* the nodes in the order the graph first runs them
NodeOrder == <<"architect", "coder", "reviewer", "executor">>

\* events an invoke emits itself: call_llm_streaming emits a token event per
\* chunk of the stream; an invoke that raises got no chunk
InvokeEvents(a, r) ==
    IF r.raised THEN <<>> ELSE <<Event(Member("token"), a, "")>>

\* the emits run_with_telemetry makes around an invoke that did r and
\* emitted ev, and how the wrapper ends
telemetry_events(a, r, ev) ==
    LET start == <<Event(Member("agent_start"), a, "")>>
        except(e) ==
            IF emit_agent_end_raises
            THEN [events |-> start \o ev, raised |-> TRUE, err |-> "TypeError"]
            ELSE [events |-> start \o ev
                               \o <<Event(Member("agent_end"), a, "false"),
                                    Event(Member("error"), a, e)>>,
                  raised |-> TRUE, err |-> e]
    IN IF r.raised THEN except(r.err)
       ELSE IF emit_agent_end_raises THEN except("TypeError")
       ELSE [events |-> start \o ev
                          \o <<Event(Member("agent_end"), a, "true")>>,
             raised |-> FALSE, err |-> ""]

\* the emit run_orchestration makes when ainvoke has returned / has raised
orchestration_end(returned) ==
    IF returned
    THEN [events |-> <<Event(Member("complete"), "orchestrator", "")>>,
          then |-> "returned"]
    ELSE [events |-> <<Event(Member("error"), "orchestrator", "")>>,
          then |-> "raised"]

(***************************************************************************)
(* One run of the compiled graph (run_orchestration)                       *)
(***************************************************************************)
Init ==
    /\ state = InitialState
    /\ node = "architect"
    /\ step = 0
    /\ status = "running"
    /\ route = ""
    /\ disk \in SUBSET {"main.py", "old.py"}
    /\ cmd_results = <<>>
    /\ llm_outputs = <<>>
    /\ runs = [a \in Agents \cup LoopEdges |-> 0]
    /\ reviews_since_exec = 0
    /\ raised = FALSE
    /\ bus = BusIdle
    /\ factory = FactoryIdle
    /\ unit = NoUnit

\* variant: the graph is compiled with a step budget a fifth of the size
OutOfSteps_early == step >= RecursionLimit \div 5

\* the graph stops with GraphRecursionError, which run_orchestration
\* re-raises, when the step budget is used up before END is reached
OutOfSteps == step >= RecursionLimit

Stop ==
    /\ status' = "raised"
    /\ UNCHANGED <<state, node, step, route, disk, cmd_results, llm_outputs,
                   runs, reviews_since_exec, raised>>
    /\ UNCHANGED <<bus, factory, unit>>

\* bookkeeping of one invocation of node n that left by edge r
Invoked(n, r) ==
    /\ step' = step + 1
    /\ runs' = IF r \in LoopEdges
               THEN [runs EXCEPT ![n] = @ + 1, ![r] = @ + 1]
               ELSE [runs EXCEPT ![n] = @ + 1]
    /\ reviews_since_exec' = IF n = "reviewer" THEN reviews_since_exec + 1
                             ELSE IF n = "executor" THEN 0
                             ELSE reviews_since_exec
    /\ status' = status

ArchitectNode ==
    /\ status = "running" /\ node = "architect"
    /\ UNCHANGED <<bus, factory, unit>>
    /\ IF OutOfSteps THEN Stop
       ELSE \E llm \in ArchitectLLM :
              /\ state' = architect_node(state, llm)
              /\ node' = "coder"
              /\ route' = ""
              /\ raised' = run_with_telemetry(
                              ArchitectInvoke(set_agent(state, "architect"),
                                              llm)).raised
              /\ Invoked("architect", "")
              /\ UNCHANGED <<disk, cmd_results, llm_outputs>>

CoderNode ==
    /\ status = "running" /\ node = "coder"
    /\ UNCHANGED <<bus, factory, unit>>
    /\ IF OutOfSteps THEN Stop
       ELSE \E llm \in CoderLLM :
              LET r == coder_node(state, disk, llm)
              IN /\ state' = r.state
                 /\ disk' = r.disk
                 /\ llm_outputs' = IF r.calls > 0 /\ llm # "raise"
                                   THEN Append(llm_outputs, llm)
                                   ELSE llm_outputs
                 /\ node' = "reviewer"
                 /\ route' = ""
                 /\ raised' = run_with_telemetry(
                                 CoderInvoke(set_agent(state, "coder"), disk,
                                             llm)).raised
                 /\ Invoked("coder", "")
                 /\ UNCHANGED cmd_results

ReviewerNode ==
    /\ status = "running" /\ node = "reviewer"
    /\ UNCHANGED <<bus, factory, unit>>
    /\ IF OutOfSteps THEN Stop
       ELSE LET s1 == reviewer_node(state)
                r == should_execute_or_fix(s1)
            IN /\ state' = s1
               /\ route' = r
               /\ node' = AfterReviewer(r)
               /\ raised' = run_with_telemetry(
                               ReviewerInvoke(set_agent(state, "reviewer"))).raised
               /\ Invoked("reviewer", r)
               /\ UNCHANGED <<disk, cmd_results, llm_outputs>>

ExecutorNode ==
    /\ status = "running" /\ node = "executor"
    /\ UNCHANGED <<bus, factory, unit>>
    /\ IF OutOfSteps THEN Stop
       ELSE \E ok \in BOOLEAN :
              LET e == executor_node(state, disk, ok)
                  r == should_retry_or_end(e.state)
              IN /\ state' = r.state
                 /\ route' = r.route
                 /\ node' = AfterExecutor(r.route)
                 /\ cmd_results' = IF e.ran THEN Append(cmd_results, ok)
                                   ELSE cmd_results
                 /\ raised' = run_with_telemetry(
                                 ExecutorInvoke(set_agent(state, "executor"),
                                                disk, ok)).raised
                 /\ Invoked("executor", r.route)
                 /\ UNCHANGED <<disk, llm_outputs>>

\* ainvoke returned: run_orchestration emits `complete` and returns the state
Complete ==
    /\ status = "running" /\ node = "END"
    /\ status' = "returned"
    /\ UNCHANGED <<state, node, step, route, disk, cmd_results, llm_outputs,
                   runs, reviews_since_exec, raised>>
    /\ UNCHANGED <<bus, factory, unit>>

Next == ArchitectNode \/ CoderNode \/ ReviewerNode \/ ExecutorNode \/ Complete

Spec == Init /\ [][Next]_vars

\* the event loop keeps scheduling the run until it returns or raises
FairSpec == Spec /\ WF_vars(Next)


(***************************************************************************)
(* The routing functions on arbitrary states                               *)
(***************************************************************************)
\* states a router can be handed: any flags, counters within their caps
\* a state as Coder and Executor leave it: a plan, code written to a file,
\* output of a command, history entries
ExecutedState ==
    add_history(
        add_file([InitialState EXCEPT !.plan = BypassPlan,
                                      !.code = "good",
                                      !.file_path = SingleFile,
                                      !.execution_output = "output",
                                      !.current_agent = "executor"],
                 SingleFile, "good"),
        "executor", "execute", "Fallback execution")

RouterStates ==
    { [base EXCEPT !.review_passed = rp,
                   !.review_attempts = ra,
                   !.execution_success = es,
                   !.max_retries = mr,
                   !.error_count = ec] :
        base \in {InitialState, ExecutedState},
        rp \in BOOLEAN, ra \in 0..DefaultMaxReviewAttempts, es \in BOOLEAN,
        mr \in 0..DefaultMaxRetries, ec \in 0..DefaultMaxRetries }

RouterInit ==
    /\ state \in {s \in RouterStates : s.error_count <= s.max_retries}
    /\ node \in {"reviewer", "executor"}
    /\ step = 0
    /\ status = "unit"
    /\ route = ""
    /\ disk = {}
    /\ cmd_results = <<>>
    /\ llm_outputs = <<>>
    /\ runs = [a \in Agents \cup LoopEdges |-> 0]
    /\ reviews_since_exec = 0
    /\ raised = FALSE
    /\ bus = BusIdle
    /\ factory = FactoryIdle
    /\ unit = NoUnit

RouteAfterReviewer ==
    /\ status = "unit" /\ node = "reviewer"
    /\ route' = should_execute_or_fix(state)
    /\ node' = AfterReviewer(route')
    /\ status' = "routed"
    /\ UNCHANGED <<bus, factory, unit>>
    /\ UNCHANGED <<state, step, disk, cmd_results, llm_outputs, runs,
                   reviews_since_exec, raised>>

RouteAfterExecutor ==
    /\ status = "unit" /\ node = "executor"
    /\ LET r == should_retry_or_end(state)
       IN /\ route' = r.route
          /\ state' = r.state
          /\ node' = AfterExecutor(r.route)
    /\ status' = "routed"
    /\ UNCHANGED <<bus, factory, unit>>
    /\ UNCHANGED <<step, disk, cmd_results, llm_outputs, runs,
                   reviews_since_exec, raised>>

RouterNext == RouteAfterReviewer \/ RouteAfterExecutor

RouterSpec == RouterInit /\ [][RouterNext]_vars


(***************************************************************************)
(* The broadcaster under concurrent runs                                   *)
(***************************************************************************)
\* the run variables of a specification that runs no graph
NoRun(st) ==
    /\ state = InitialState
    /\ node = ""
    /\ step = 0
    /\ status = st
    /\ route = ""
    /\ disk = {}
    /\ cmd_results = <<>>
    /\ llm_outputs = <<>>
    /\ runs = [a \in Agents \cup LoopEdges |-> 0]
    /\ reviews_since_exec = 0
    /\ raised = FALSE

BusInit ==
    /\ NoRun("bus")
    /\ bus = BusIdle
    /\ factory = FactoryIdle
    /\ unit = NoUnit

BusStep(b) ==
    /\ status = "bus"
    /\ bus' = b
    /\ UNCHANGED RunVars
    /\ UNCHANGED <<factory, unit>>

\* websocket_events accepts a client and registers it
Connect(s) ==
    /\ bus.sink[s] = "new"
    /\ BusStep(connect(bus, s))

\* the peer of a WebSocket goes away; what it had received goes with it
SinkCloses(s) ==
    /\ bus.sink[s] = "open"
    /\ BusStep([bus EXCEPT !.sink[s] = "closed",
                           !.received[s] = [t \in Tasks |-> <<>>],
                           !.joined[s] = [t \in Tasks |-> 0]])

\* websocket_events gets WebSocketDisconnect from receive_text
Disconnect(s) ==
    /\ bus.sink[s] = "closed"
    /\ BusStep(disconnect(bus, s))

\* run_orchestration is called: its first statement emits agent_start
RunStart(t) ==
    /\ bus.task[t].pc = "idle"
    /\ BusStep(emit_begin(
         [bus EXCEPT
            !.task[t].pc = "busy",
            !.task[t].then = "graph",
            !.task[t].todo =
                <<Event(Member("agent_start"), "orchestrator", "")>>], t))

\* a node of the graph calls run_with_telemetry of its agent, which starts
\* by emitting agent_start; the node catches whatever the wrapper raises and
\* the graph goes on
AgentInvocation(t) ==
    /\ bus.task[t].pc = "graph"
    /\ bus.task[t].invocations < MaxInvocations
    /\ \E failed \in BOOLEAN :
         LET a == NodeOrder[bus.task[t].invocations + 1]
             r == IF failed THEN Raised(InitialState, "LLMError")
                  ELSE Returned(InitialState)
             te == telemetry_events(a, r, InvokeEvents(a, r))
         IN BusStep(emit_begin(
              [bus EXCEPT
                 !.task[t].pc = "busy",
                 !.task[t].then = "graph",
                 !.task[t].todo = te.events,
                 !.task[t].invocations = @ + 1,
                 !.task[t].inv = [agent |-> a,
                                  first |-> Len(bus.task[t].emitted) + 1,
                                  invoke_raised |-> r.raised,
                                  invoke_err |-> r.err,
                                  raised |-> te.raised,
                                  err |-> te.err]], t))

\* ainvoke returns the final state, or raises (GraphRecursionError when the
\* step budget is used up): run_orchestration emits complete, or error
GraphEnds(t) ==
    /\ bus.task[t].pc = "graph"
    /\ \E returned \in BOOLEAN :
         LET oe == orchestration_end(returned)
         IN BusStep(emit_begin(
              [bus EXCEPT !.task[t].pc = "busy",
                          !.task[t].then = oe.then,
                          !.task[t].todo = oe.events], t))

\* the task reaches its next emit
EmitNext(t) ==
    /\ bus.task[t].pc = "busy"
    /\ ~bus.task[t].em.active
    /\ bus.task[t].todo # <<>>
    /\ BusStep(emit_begin(bus, t))

\* a send_text of an emit in flight returns or raises
EmitSend(t) ==
    /\ bus.task[t].em.active
    /\ BusStep(emit_send(bus, t))

BusNext ==
    \/ \E s \in Sinks : Connect(s) \/ SinkCloses(s) \/ Disconnect(s)
    \/ \E t \in Tasks : \/ RunStart(t) \/ AgentInvocation(t) \/ GraphEnds(t)
                        \/ EmitNext(t) \/ EmitSend(t)

BusSpec == BusInit /\ [][BusNext]_vars

(***************************************************************************)
(* The factory under calls                                                 *)
(***************************************************************************)
\* a factory with some calls behind it: q requests are still queued, the
\* last a calls failed to reconnect, and d OOM failures in a row have each
\* moved the tier one step down
UsedFactory(q, a, d) ==
    [FactoryIdle EXCEPT !.primary_client = TRUE,
                        !.active_client = "primary",
                        !.request_queue = [i \in 1..q |-> i],
                        !.reconnect_attempts = a,
                        !.oom_count = d,
                        !.current_tier = Tiers[d + 1]]

\* the same after a call that succeeded at once, which resets the OOM count
AfterSuccess(f) == [f EXCEPT !.oom_count = 0]

FactoryStates ==
    {FactoryIdle}
    \cup {UsedFactory(q, a, d) :
            q \in {0, MaxQueueSize - 1},
            a \in {0, MaxReconnectAttempts - 1},
            d \in 0..MaxOOMFallbacks}
    \cup {AfterSuccess(UsedFactory(0, 0, MaxOOMFallbacks))}

FactoryInit ==
    /\ NoRun("factory")
    /\ bus = BusIdle
    /\ unit = NoUnit
    /\ \E url \in BOOLEAN, f \in FactoryStates :
         factory = [f EXCEPT !.fallback_url = url]

\* got is kept for the callers of get_client only
FactoryStep(op, f) ==
    /\ status = "factory"
    /\ factory' = [f EXCEPT !.op = op,
                            !.got = IF op = "get_client" THEN @ ELSE NoProbe]
    /\ UNCHANGED RunVars
    /\ UNCHANGED <<bus, unit>>

\* a request that is not queued and was not issued before
NewRequest == MaxQueueSize + factory.calls + 1

GetClient ==
    \E h \in Probes : FactoryStep("get_client", get_client(factory, h))

CompleteWithFallback ==
    /\ factory.call.pc \in {"idle", "done"}
    /\ factory.calls < MaxRequests
    /\ \E h \in Probes, c \in {"ok"} \cup Messages :
         FactoryStep("complete_with_fallback",
                     complete_with_fallback(factory, NewRequest, h, c))

RetryAfterOOM ==
    /\ factory.call.pc = "retrying"
    /\ \E h \in Probes, c \in {"ok"} \cup Messages :
         FactoryStep("complete_with_fallback", oom_retry(factory, h, c))

Reconnect ==
    /\ factory.call.pc = "sleeping"
    /\ \E h \in Probes, healthy \in BOOLEAN, c \in {"ok"} \cup Messages :
         FactoryStep("complete_with_fallback",
                     reconnect(factory, h, healthy, c))

ProcessQueue ==
    /\ factory.request_queue # <<>>
    /\ \E h \in Probes :
         FactoryStep("process_queue", process_queue(factory, h))

FactoryNext ==
    \/ GetClient
    \/ CompleteWithFallback
    \/ RetryAfterOOM
    \/ Reconnect
    \/ ProcessQueue

FactorySpec == FactoryInit /\ [][FactoryNext]_vars

(***************************************************************************)
(* process_queue draining the queue while calls go on                      *)
(***************************************************************************)
\* a factory whose queue holds q requests, as test_process_queue builds it,
\* and that has one more call of complete_with_fallback ahead
QueuedFactory(q) ==
    [FactoryIdle EXCEPT !.request_queue = [i \in 1..q |-> i],
                        !.calls = MaxRequests - 1]

\* the locals of a process_queue call: the queue it found, the requests it
\* issued (request, client, did the completion succeed) and its results
NoDrain ==
    [op |-> "process_queue", pc |-> "idle", queued |-> <<>>,
     issued |-> <<>>, results |-> <<>>]

QueueInit ==
    /\ NoRun("factory")
    /\ bus = BusIdle
    /\ unit = NoDrain
    /\ \E url \in BOOLEAN, q \in 0..MaxQueued :
         factory = [QueuedFactory(q) EXCEPT !.fallback_url = url]

\* process_queue is called: results = []
ProcessQueueStarts ==
    /\ status = "factory" /\ unit.pc = "idle"
    /\ unit' = [unit EXCEPT !.pc = "loop", !.queued = factory.request_queue]
    /\ UNCHANGED RunVars
    /\ UNCHANGED <<bus, factory>>

\* one turn of its loop: pop, get_client, complete; the response is
\* appended to results, an exception is logged
ProcessQueueTurn ==
    /\ status = "factory" /\ unit.pc = "loop"
    /\ factory.request_queue # <<>>
    /\ \E h \in Probes, c \in {"ok"} \cup Messages :
         LET f == process_queue(factory, h)
         IN /\ factory' = [f EXCEPT !.op = "process_queue"]
            /\ unit' = [unit EXCEPT
                          !.issued = Append(@, <<f.processed, f.got.client,
                                                 c = "ok">>),
                          !.results = IF c = "ok" THEN Append(@, f.processed)
                                      ELSE @]
    /\ UNCHANGED RunVars
    /\ UNCHANGED bus

\* the loop finds the queue empty: return results
ProcessQueueReturns ==
    /\ status = "factory" /\ unit.pc = "loop"
    /\ factory.request_queue = <<>>
    /\ unit' = [unit EXCEPT !.pc = "returned"]
    /\ UNCHANGED RunVars
    /\ UNCHANGED <<bus, factory>>

QueueNext ==
    \/ ProcessQueueStarts
    \/ ProcessQueueTurn
    \/ ProcessQueueReturns
    \/ CompleteWithFallback
    \/ RetryAfterOOM
    \/ Reconnect

QueueSpec == QueueInit /\ [][QueueNext]_vars

\* the event loop resumes process_queue when the call it awaits is over
QueueFairSpec ==
    QueueSpec /\ WF_vars(ProcessQueueTurn \/ ProcessQueueReturns)

(***************************************************************************)
(* errors.py: ErrorClassifier and RetryPolicy                              *)
(***************************************************************************)
\* The pattern families of ErrorClassifier.  An error text is abstracted to
\* the set of fragments it contains; each fragment below is matched (with
\* re.search, ignoring case) by a pattern of the families listed for it.
\* "httpx.ReadTimeout" is matched by the connection pattern
\* httpx\.ReadTimeout and by the timeout pattern ReadTimeout.
Families == {"parse", "timeout", "connection", "syntax", "runtime"}

Fragments ==
    {"JSONDecodeError:", "timed out", "httpx.ReadTimeout",
     "Connection refused", "SyntaxError:", "TypeError:",
     "All connection attempts failed"}

Matching(fragment) ==
    CASE fragment = "JSONDecodeError:" -> {"parse"}
      [] fragment = "timed out" -> {"timeout"}
      [] fragment = "httpx.ReadTimeout" -> {"timeout", "connection"}
      [] fragment = "Connection refused" -> {"connection"}
      [] fragment = "SyntaxError:" -> {"syntax"}
      [] fragment = "TypeError:" -> {"runtime"}
      [] OTHER -> {}

Texts == SUBSET Fragments

_matches_any(text, family) == \E f \in text : family \in Matching(f)

ClassifiedError(category, strategy) ==
    [category |-> category, recovery_strategy |-> strategy]

\* variant: the connection patterns are tried before the timeout patterns
classify_connection_first(text) ==
    IF _matches_any(text, "parse") THEN ClassifiedError("parse", "reformat")
    ELSE IF _matches_any(text, "connection")
    THEN ClassifiedError("connection", "reconnect")
    ELSE IF _matches_any(text, "timeout")
    THEN ClassifiedError("timeout", "retry")
    ELSE IF _matches_any(text, "syntax") THEN ClassifiedError("syntax", "fix")
    ELSE IF _matches_any(text, "runtime")
    THEN ClassifiedError("runtime", "fix")
    ELSE ClassifiedError("unknown", "abort")

\* ErrorClassifier.classify on str(error)
classify(text) ==
    IF _matches_any(text, "parse") THEN ClassifiedError("parse", "reformat")
    ELSE IF _matches_any(text, "timeout")
    THEN ClassifiedError("timeout", "retry")
    ELSE IF _matches_any(text, "connection")
    THEN ClassifiedError("connection", "reconnect")
    ELSE IF _matches_any(text, "syntax") THEN ClassifiedError("syntax", "fix")
    ELSE IF _matches_any(text, "runtime")
    THEN ClassifiedError("runtime", "fix")
    ELSE ClassifiedError("unknown", "abort")

\* a RetryPolicy; the delays are whole seconds
RetryPolicy(max_retries, initial_delay, max_delay, exponential_base) ==
    [max_retries |-> max_retries, initial_delay |-> initial_delay,
     max_delay |-> max_delay, exponential_base |-> exponential_base]

\* variant: the delay is not capped
get_delay_nocap(policy, attempt) ==
    policy.initial_delay * (policy.exponential_base ^ attempt)

\* RetryPolicy.get_delay
get_delay(policy, attempt) ==
    Min(policy.initial_delay * (policy.exponential_base ^ attempt),
        policy.max_delay)

CONNECTION_RETRY_POLICY == RetryPolicy(5, 2, 30, 2)

(***************************************************************************)
(* agents/base.py: BaseAgent.call_llm                                      *)
(***************************************************************************)
\* what the POST of one attempt can do: answer, or raise an exception of
\* httpx (or any other) with the text str(e) gives
ExceptionTypes ==
    {"ConnectError", "TimeoutException", "ReadTimeout", "HTTPStatusError",
     "Exception"}

\* the exception types named by the first except clause of call_llm
RetriedTypes == {"ConnectError", "TimeoutException", "ReadTimeout"}

NoError == [type |-> "", text |-> {}]

\* texts an exception raised by the POST carries: one fragment or none
ErrorTexts == {{}} \cup {{f} : f \in Fragments}

Errors == [type : ExceptionTypes, text : ErrorTexts]

\* the locals of a call_llm call: the loop index, the POSTs made, the delays
\* slept, the error of the last POST
NoCallLLM ==
    [op |-> "call_llm", pc |-> "trying", attempt |-> 0, posts |-> 0,
     delays |-> <<>>, last_error |-> NoError, err |-> NoError,
     result |-> "", exc |-> NoError]

\* one turn of the retry loop of call_llm: the POST answers or raises e
call_llm_attempt(u, e) ==
    LET u1 == [u EXCEPT !.posts = @ + 1, !.err = e]
    IN IF e = NoError
       THEN [u1 EXCEPT !.pc = "done", !.result = "content"]
       ELSE IF e.type \in RetriedTypes
       THEN LET u2 == [u1 EXCEPT !.last_error = e]
                classified == classify(e.text)
            IN IF /\ classified.recovery_strategy = "reconnect"
                  /\ u.attempt < CONNECTION_RETRY_POLICY.max_retries
               THEN [u2 EXCEPT
                       !.delays = Append(@, get_delay(CONNECTION_RETRY_POLICY,
                                                      u.attempt)),
                       !.attempt = @ + 1]
               ELSE [u2 EXCEPT !.pc = "done", !.result = "raised", !.exc = e]
       ELSE [u1 EXCEPT !.pc = "done", !.result = "raised", !.exc = e]

CallLLMInit ==
    /\ NoRun("call_llm")
    /\ bus = BusIdle
    /\ factory = FactoryIdle
    /\ unit = NoCallLLM

\* the loop runs while range(max_retries + 1) lasts
Attempt ==
    /\ status = "call_llm" /\ unit.pc = "trying"
    /\ unit.attempt <= CONNECTION_RETRY_POLICY.max_retries
    /\ \E e \in {NoError} \cup Errors : unit' = call_llm_attempt(unit, e)
    /\ UNCHANGED RunVars
    /\ UNCHANGED <<bus, factory>>

CallLLMNext == Attempt

CallLLMSpec == CallLLMInit /\ [][CallLLMNext]_vars

(***************************************************************************)
(* agents/base.py: BaseAgent.call_llm_streaming                            *)
(***************************************************************************)
\* the lines response.aiter_lines() can yield:
\*   content  data: {"choices": [{"delta": {"content": <token>}}]}
\*   empty    the same with the token ""
\*   role     data: a delta without "content"
\*   garbage  data: followed by text json.loads rejects
\*   comment  a line that does not start with "data: "
\*   null     data: a delta whose "content" is null (+= raises TypeError)
\*   done     data: [DONE]
LineKinds ==
    {"content", "empty", "role", "garbage", "comment", "null", "done"}

\* the token of the line at position i of the stream
TokenAt(kind, i) == IF kind = "empty" THEN "" ELSE <<"tok", i>>

RECURSIVE Streams(_)
Streams(n) ==
    IF n = 0 THEN {<<>>}
    ELSE LET shorter == Streams(n - 1)
         IN shorter \cup {Append(s, k) : s \in {x \in shorter : Len(x) = n - 1},
                                         k \in LineKinds}

FilePaths == {"/output.py", "main.py"}

\* the locals of a call_llm_streaming call: lines is the stream the server
\* sends and breaks_at the number of lines read when the transport raises
\* (-1: it does not; 0: the request or raise_for_status fails); i counts the
\* lines read, emitted are the payloads given to broadcaster.emit, llm are
\* the locals of the call_llm it falls back to
StreamingCall(lines, breaks_at, file_path) ==
    [op |-> "call_llm_streaming", pc |-> "streaming", agent |-> "coder",
     lines |-> lines,
     breaks_at |-> breaks_at, file_path |-> file_path, i |-> 0,
     full_response |-> <<>>, emitted |-> <<>>, llm |-> NoCallLLM,
     result |-> "", text |-> <<>>]

\* broadcaster.emit(EventType.TOKEN, self.name, {token, file_path})
TokenEvent(agent, token, file_path) ==
    Event(Member("token"), agent, [token |-> token, file_path |-> file_path])

\* except Exception: fall back to call_llm
stream_failed(u) == [u EXCEPT !.pc = "fallback"]

\* return full_response
stream_returns(u) ==
    [u EXCEPT !.pc = "done", !.result = "content", !.text = u.full_response]

\* variant: a delta is emitted only when its content is not empty
stream_line_skip_empty(u) ==
    IF u.breaks_at = u.i THEN stream_failed(u)
    ELSE IF u.i = Len(u.lines) THEN stream_returns(u)
    ELSE LET kind == u.lines[u.i + 1]
             u1 == [u EXCEPT !.i = @ + 1]
         IN CASE kind = "done" -> stream_returns(u1)
              [] kind = "null" -> stream_failed(u1)
              [] kind = "content" ->
                   LET token == TokenAt(kind, u1.i)
                   IN [u1 EXCEPT
                         !.full_response = Append(@, token),
                         !.emitted = Append(@, TokenEvent(u.agent, token, u.file_path))]
              [] kind = "empty" ->
                   [u1 EXCEPT !.full_response = Append(@, TokenAt(kind, u1.i))]
              [] OTHER -> u1

\* one step of the async for: the transport raises, the stream is over, or
\* the next line is handled
stream_line(u) ==
    IF u.breaks_at = u.i THEN stream_failed(u)
    ELSE IF u.i = Len(u.lines) THEN stream_returns(u)
    ELSE LET kind == u.lines[u.i + 1]
             u1 == [u EXCEPT !.i = @ + 1]
         IN CASE kind = "done" -> stream_returns(u1)
              [] kind = "null" -> stream_failed(u1)
              [] kind \in {"content", "empty"} ->
                   LET token == TokenAt(kind, u1.i)
                   IN [u1 EXCEPT
                         !.full_response = Append(@, token),
                         !.emitted = Append(@, TokenEvent(u.agent, token, u.file_path))]
              [] OTHER -> u1

\* the text of the answer call_llm got at its n-th POST: another completion
\* of the same prompt, returned whole
AnswerText(n) == <<<<"answer", n>>>>

\* the fallback: one turn of call_llm; its result is the result of the call.
\* call_llm emits no token event
stream_fallback(u, e) ==
    LET l == call_llm_attempt(u.llm, e)
    IN IF l.pc = "done"
       THEN [u EXCEPT !.llm = l, !.pc = "done", !.result = l.result,
                      !.text = IF l.result = "content"
                               THEN AnswerText(l.posts) ELSE <<>>]
       ELSE [u EXCEPT !.llm = l]

StreamInit ==
    /\ NoRun("streaming")
    /\ bus = BusIdle
    /\ factory = FactoryIdle
    /\ \E lines \in Streams(MaxLines), fp \in FilePaths :
         \E b \in -1..Len(lines) : unit = StreamingCall(lines, b, fp)

StreamLine ==
    /\ status = "streaming" /\ unit.pc = "streaming"
    /\ unit' = stream_line(unit)
    /\ UNCHANGED RunVars
    /\ UNCHANGED <<bus, factory>>

\* errors of the fallback's POST: one call_llm retries and one it does not,
\* of every type
FallbackErrors ==
    {e \in Errors : e.text \in {{"Connection refused"}, {"timed out"}}}

StreamFallback ==
    /\ status = "streaming" /\ unit.pc = "fallback"
    /\ \E e \in {NoError} \cup FallbackErrors :
         unit' = stream_fallback(unit, e)
    /\ UNCHANGED RunVars
    /\ UNCHANGED <<bus, factory>>

StreamNext == StreamLine \/ StreamFallback

StreamSpec == StreamInit /\ [][StreamNext]_vars

(***************************************************************************)
(* ErrorClassifier.classify applied to texts                               *)
(***************************************************************************)
NoClassified == ClassifiedError("", "")

ClassifyInit ==
    /\ NoRun("classify")
    /\ bus = BusIdle
    /\ factory = FactoryIdle
    /\ \E text \in Texts :
         unit = [op |-> "classify", pc |-> "called", text |-> text,
                 result |-> NoClassified]

Classify ==
    /\ status = "classify" /\ unit.pc = "called"
    /\ unit' = [unit EXCEPT !.pc = "done", !.result = classify(unit.text)]
    /\ UNCHANGED RunVars
    /\ UNCHANGED <<bus, factory>>

ClassifyNext == Classify

ClassifySpec == ClassifyInit /\ [][ClassifyNext]_vars

(***************************************************************************)
(* RetryPolicy.get_delay over the attempts of a retry loop                 *)
(***************************************************************************)
\* the policies of the module (errors.py:273-275) and of its tests, and
\* their neighbours
RetryPolicies ==
    {RetryPolicy(r, i, m, b) : r \in {2, 3, 5}, i \in {1, 2}, m \in {5, 30},
                               b \in {1, 2, 3}}

DelayInit ==
    /\ NoRun("get_delay")
    /\ bus = BusIdle
    /\ factory = FactoryIdle
    /\ \E policy \in RetryPolicies :
         unit = [op |-> "get_delay", policy |-> policy, delays |-> <<>>]

\* get_delay is called for the next attempt, 0-indexed
GetDelay ==
    /\ status = "get_delay"
    /\ Len(unit.delays) <= MaxAttempt
    /\ unit' = [unit EXCEPT
                  !.delays = Append(@, get_delay(unit.policy, Len(@)))]
    /\ UNCHANGED RunVars
    /\ UNCHANGED <<bus, factory>>

DelayNext == GetDelay

DelaySpec == DelayInit /\ [][DelayNext]_vars

(***************************************************************************)
(* state.py: the conversation memory of OrchestratorState                  *)
(***************************************************************************)
\* A text is abstracted to what it is (id) and how long it is (len).
Text(id, len) == [id |-> id, len |-> len]

\* text[:n]
Truncated(text, n) == Text(text.id, Min(text.len, n))

\* len() of the role and agent names used
NameLen(name) ==
    CASE name = "user" -> 4
      [] name = "coder" -> 5
      [] name = "system" -> 6
      [] name = "assistant" -> 9

\* a message dict; agent is "" when the key is absent
Message(role, content, agent, compressed) ==
    [role |-> role, content |-> content, agent |-> agent,
     compressed |-> compressed]

\* the conversation fields of a new OrchestratorState
NoConversation(max_context_tokens) ==
    [op |-> "", messages |-> <<>>, context_tokens |-> 0,
     max_context_tokens |-> max_context_tokens,
     context_compressed |-> FALSE, added |-> 0, compressions |-> 0,
     keep_recent |-> 0]

add_message(s, role, content, agent) ==
    [s EXCEPT !.messages = Append(@, Message(role, content, agent, FALSE)),
              !.context_tokens = @ + content.len \div TokenChars]

should_compress_context(s) == s.context_tokens > s.max_context_tokens

\* a slice bound i of a list of n items, as Python normalises it
SliceIndex(i, n) == IF i < 0 THEN (IF i + n < 0 THEN 0 ELSE i + n)
                    ELSE Min(i, n)

\* seq[:stop] and seq[start:]
SliceTo(seq, stop) == SubSeq(seq, 1, SliceIndex(stop, Len(seq)))
SliceFrom(seq, start) ==
    SubSeq(seq, SliceIndex(start, Len(seq)) + 1, Len(seq))

RECURSIVE SumLen(_)
SumLen(parts) ==
    IF parts = <<>> THEN 0 ELSE Head(parts).len + SumLen(Tail(parts))

\* "[{agent}]: {content[:100]}..."
summary_part(msg) ==
    LET agent == IF msg.agent # "" THEN msg.agent ELSE msg.role
        content == Truncated(msg.content, SummaryChars)
    IN Text(<<agent, content>>, NameLen(agent) + 4 + content.len + 3)

\* "Previous conversation summary:\n" + "\n".join(summary_parts)
summary_text(old_messages) ==
    LET parts == [i \in 1..Len(old_messages) |->
                    summary_part(old_messages[i])]
        joins == IF parts = <<>> THEN 0 ELSE Len(parts) - 1
    IN Text(<<"summary", parts>>, SummaryHeadChars + SumLen(parts) + joins)

RECURSIVE SumTokens(_)
SumTokens(msgs) ==
    IF msgs = <<>> THEN 0
    ELSE Head(msgs).content.len \div TokenChars + SumTokens(Tail(msgs))

compress_context(s, keep_recent) ==
    IF Len(s.messages) <= keep_recent THEN s
    ELSE LET old_messages == SliceTo(s.messages, -keep_recent)
             recent_messages == SliceFrom(s.messages, -keep_recent)
             summary_message ==
                 Message("system", summary_text(old_messages), "", TRUE)
             messages == <<summary_message>> \o recent_messages
         IN [s EXCEPT !.messages = messages,
                      !.context_tokens = SumTokens(messages),
                      !.context_compressed = TRUE]

\* the contents the tests add: a short one and one longer than a summary
\* keeps, each told apart by the number of the add_message call
ContentLens == {8, 120}

ConversationInit ==
    /\ NoRun("conversation")
    /\ bus = BusIdle
    /\ factory = FactoryIdle
    /\ \E m \in {TestMaxContextTokens, DefaultMaxContextTokens} :
         unit = NoConversation(m)

AddMessage ==
    /\ status = "conversation"
    /\ unit.added < MaxMessages
    /\ \E who \in {<<"user", "">>, <<"assistant", "coder">>},
          n \in ContentLens :
         unit' = [add_message(unit, who[1], Text(unit.added + 1, n), who[2])
                    EXCEPT !.op = "add_message", !.added = @ + 1]
    /\ UNCHANGED RunVars
    /\ UNCHANGED <<bus, factory>>

CompressContext ==
    /\ status = "conversation"
    /\ unit.compressions < MaxCompressions
    /\ \E keep_recent \in 0..MaxKeepRecent :
         unit' = [compress_context(unit, keep_recent)
                    EXCEPT !.op = "compress_context",
                           !.compressions = @ + 1,
                           !.keep_recent = keep_recent]
    /\ UNCHANGED RunVars
    /\ UNCHANGED <<bus, factory>>

ConversationNext == AddMessage \/ CompressContext

ConversationSpec == ConversationInit /\ [][ConversationNext]_vars

(***************************************************************************)
(* Paths: tools.py read_file, Coder's writes, Executor's fallback command  *)
(***************************************************************************)
\* A name is a sequence of characters, a path a sequence of names that is
\* absolute or not.  The file system has no symbolic links.
DotDot == <<".", ".">>
WorkspaceName == <<"w", "s">>       \* the workspace root is /ws
SiblingName == <<"w", "s", "2">>    \* /ws2, next to it
FileName == <<"f">>

Path(abs, parts) == [abs |-> abs, parts |-> parts]

WORKSPACE_DIR == Path(TRUE, <<WorkspaceName>>)

\* pathlib's a / b
Join(a, b) == IF b.abs THEN b ELSE Path(a.abs, a.parts \o b.parts)

\* Path.resolve() of an absolute path: ".." steps up and stays at the root
RECURSIVE Normalized(_, _)
Normalized(parts, done) ==
    IF parts = <<>> THEN done
    ELSE IF Head(parts) = DotDot
    THEN Normalized(Tail(parts),
                    IF done = <<>> THEN <<>>
                    ELSE SubSeq(done, 1, Len(done) - 1))
    ELSE Normalized(Tail(parts), Append(done, Head(parts)))

Resolve(p) == Path(TRUE, Normalized(p.parts, <<>>))

\* str() of an absolute path, as characters
RECURSIVE Str(_)
Str(p) ==
    IF p.parts = <<>> THEN <<"/">>
    ELSE IF Len(p.parts) = 1 THEN <<"/">> \o p.parts[1]
    ELSE Str(Path(TRUE, SubSeq(p.parts, 1, Len(p.parts) - 1)))
           \o <<"/">> \o p.parts[Len(p.parts)]

\* str.startswith
startswith(s, prefix) ==
    Len(prefix) <= Len(s) /\ SubSeq(s, 1, Len(prefix)) = prefix

RECURSIVE PartsUpTo(_)
PartsUpTo(n) ==
    IF n = 0 THEN {<<>>}
    ELSE LET shorter == PartsUpTo(n - 1)
         IN shorter \cup
            {Append(s, c) : s \in {x \in shorter : Len(x) = n - 1},
                            c \in {DotDot, WorkspaceName, SiblingName,
                                   FileName}}

\* the path arguments: relative and absolute, up to MaxDepth names
PathArgs == {Path(abs, parts) : abs \in BOOLEAN, parts \in PartsUpTo(MaxDepth)}

ToolResult(success, error, read) ==
    [success |-> success, error |-> error, read |-> read]

NoPath == Path(FALSE, <<>>)

\* FileReadTool.execute; kind is what the resolved path is on the disk
read_file(path, kind) ==
    LET filepath == Resolve(Join(WORKSPACE_DIR, path))
    IN IF ~startswith(Str(filepath), Str(Resolve(WORKSPACE_DIR)))
       THEN ToolResult(FALSE, "Access denied", NoPath)
       ELSE IF kind = "missing"
       THEN ToolResult(FALSE, "File not found", NoPath)
       ELSE IF kind = "dir" THEN ToolResult(FALSE, "Not a file", NoPath)
       ELSE ToolResult(TRUE, "", filepath)

\* CoderAgent.invoke for one planned file: where write_text writes; nowhere
\* when the LLM call raises or when the location is a directory that exists
\* for sure (the root of the file system, the workspace root made at line 69)
coder_write(path, llm) ==
    LET file_path == Join(WORKSPACE_DIR, path)
        location == Resolve(file_path)
    IN IF llm = "raise" \/ location \in {Path(TRUE, <<>>),
                                         Resolve(WORKSPACE_DIR)}
       THEN {}
       ELSE {location}

\* the command _fallback_execution builds: main.py of the workspace, else
\* state.file_path, else the first .py file of the workspace, else none
NoCommand == <<>>
MainPy == Join(WORKSPACE_DIR, Path(FALSE, <<FileName>>))
FirstPy == Join(WORKSPACE_DIR, Path(FALSE, <<<<"g">>>>))
fallback_command(main_exists, file_path, py_files) ==
    IF main_exists THEN <<"python", MainPy>>
    ELSE IF file_path # NoPath THEN <<"python", file_path>>
    ELSE IF py_files THEN <<"python", FirstPy>>
    ELSE NoCommand

SandboxInit ==
    /\ NoRun("sandbox")
    /\ bus = BusIdle
    /\ factory = FactoryIdle
    /\ \E path \in PathArgs :
         \/ \E kind \in {"file", "dir", "missing"} :
              unit = [op |-> "read_file", pc |-> "called", path |-> path,
                      kind |-> kind,
                      result |-> ToolResult(FALSE, "", NoPath)]
         \/ \E llm \in CoderLLM :
              unit = [op |-> "coder", pc |-> "called", path |-> path,
                      llm |-> llm, written |-> {}]
         \/ \E main_exists \in BOOLEAN, py_files \in BOOLEAN,
               given \in BOOLEAN :
              unit = [op |-> "executor", pc |-> "called",
                      file_path |-> IF given
                                    THEN Join(WORKSPACE_DIR, path)
                                    ELSE NoPath,
                      main_exists |-> main_exists, py_files |-> py_files,
                      ran |-> NoCommand]

ReadFile ==
    /\ status = "sandbox" /\ unit.op = "read_file" /\ unit.pc = "called"
    /\ unit' = [unit EXCEPT !.pc = "done",
                            !.result = read_file(unit.path, unit.kind)]
    /\ UNCHANGED RunVars
    /\ UNCHANGED <<bus, factory>>

CoderWrites ==
    /\ status = "sandbox" /\ unit.op = "coder" /\ unit.pc = "called"
    /\ unit' = [unit EXCEPT !.pc = "done",
                            !.written = coder_write(unit.path, unit.llm)]
    /\ UNCHANGED RunVars
    /\ UNCHANGED <<bus, factory>>

FallbackExecution ==
    /\ status = "sandbox" /\ unit.op = "executor" /\ unit.pc = "called"
    /\ unit' = [unit EXCEPT
                  !.pc = "done",
                  !.ran = fallback_command(unit.main_exists, unit.file_path,
                                           unit.py_files)]
    /\ UNCHANGED RunVars
    /\ UNCHANGED <<bus, factory>>

SandboxNext == ReadFile \/ CoderWrites \/ FallbackExecution

SandboxSpec == SandboxInit /\ [][SandboxNext]_vars

(***************************************************************************)
(* main.py: POST /orchestrate                                              *)
(***************************************************************************)
\* OrchestrationRequest.max_retries: Field(default=3, ge=0, le=10)
MaxRetriesValues == 0 .. RequestMaxRetries

\* the handler awaits run_orchestration(request.task): the state of the run
\* is OrchestratorState(task=task), whatever request.max_retries is
OrchestrateInit ==
    /\ state = InitialState
    /\ node = "architect"
    /\ step = 0
    /\ status = "running"
    /\ route = ""
    /\ disk \in SUBSET {"main.py", "old.py"}
    /\ cmd_results = <<>>
    /\ llm_outputs = <<>>
    /\ runs = [a \in Agents \cup LoopEdges |-> 0]
    /\ reviews_since_exec = 0
    /\ raised = FALSE
    /\ bus = BusIdle
    /\ factory = FactoryIdle
    /\ \E m \in MaxRetriesValues :
         unit = [op |-> "orchestrate", max_retries |-> m, responded |-> FALSE,
                 success |-> FALSE, retries |-> 0]

\* the response the handler builds from the final state, or from the
\* exception run_orchestration raised
OrchestrationResponse(u, returned, s) ==
    IF returned
    THEN [u EXCEPT !.responded = TRUE, !.success = s.execution_success,
                   !.retries = s.error_count]
    ELSE [u EXCEPT !.responded = TRUE, !.success = FALSE, !.retries = 0]

OrchestrateResponds ==
    /\ status \in {"returned", "raised"}
    /\ ~unit.responded
    /\ unit' = OrchestrationResponse(unit, status = "returned", state)
    /\ UNCHANGED RunVars
    /\ UNCHANGED <<bus, factory>>

OrchestrateNext == Next \/ OrchestrateResponds

OrchestrateSpec == OrchestrateInit /\ [][OrchestrateNext]_vars

(***************************************************************************)
(* ReviewerAgent.invoke on the states Coder hands over                     *)
(***************************************************************************)
\* contents a generated file can have: Coder replaces an empty extraction
\* by its placeholder comment before it writes the file
FileContents == {"bad", "good", "todo"}

\* plans whose files are all generated, under the paths of the plan
GeneratedPlans ==
    UNION { { [i \in 1..n |-> [path |-> PlanPaths[i], content |-> cs[i],
                               generated |-> TRUE]] :
                cs \in [1..n -> FileContents] } : n \in 1..MaxFiles }

\* states Reviewer is invoked on: after the single-file path of Coder (any
\* code, no plan) or after its plan path, which leaves the content of the
\* last file of the plan in state.code
ReviewerStates ==
    { [InitialState EXCEPT !.code = c, !.review_passed = rp,
                           !.review_attempts = ra] :
        c \in {""} \cup FileContents, rp \in BOOLEAN,
        ra \in 0..DefaultMaxReviewAttempts }
    \cup
    { [InitialState EXCEPT !.planned_files = plan,
                           !.code = plan[Len(plan)].content,
                           !.file_path = PlanPaths[Len(plan)],
                           !.review_passed = rp,
                           !.review_attempts = ra] :
        plan \in GeneratedPlans, rp \in BOOLEAN,
        ra \in 0..DefaultMaxReviewAttempts }

ReviewerInit ==
    /\ NoRun("unit")
    /\ bus = BusIdle
    /\ factory = FactoryIdle
    /\ \E s \in ReviewerStates :
         unit = [op |-> "review", before |-> s, done |-> FALSE,
                 result |-> Returned(s)]

Review ==
    /\ unit.op = "review" /\ ~unit.done
    /\ unit' = [unit EXCEPT
                  !.done = TRUE,
                  !.result = ReviewerInvoke(set_agent(unit.before, "reviewer"))]
    /\ UNCHANGED RunVars
    /\ UNCHANGED <<bus, factory>>

ReviewerNext == Review

ReviewerSpec == ReviewerInit /\ [][ReviewerNext]_vars

(***************************************************************************)
(* ExecutorAgent.invoke on an execution plan, one step per await           *)
(***************************************************************************)
\* a step of the plan: started in the background or run in the foreground,
\* and whether its command succeeds when it is run
PlanSteps == [background : BOOLEAN, ok : BOOLEAN]

ExecutionPlans == UNION { [1..n -> PlanSteps] : n \in 1..MaxPlanSteps }

\* the invocation at the top of its for loop
PlanExecution(steps) ==
    [op |-> "execute", steps |-> steps, i |-> 1, pc |-> "emit_running",
     events |-> <<>>, ran |-> <<>>, overall_success |-> TRUE,
     execution_success |-> FALSE, err |-> ""]

StepEvent(n, st) == Event(Raw("execution_step"), "executor", <<n, st>>)

\* the invocation up to its next await: the emit of `running`, the command,
\* the emit of the step's result, and what follows the loop
executor_step(u) ==
    LET ok == u.steps[u.i].ok
    IN CASE u.pc = "emit_running" ->
              IF emit_raises(Raw("execution_step"))
              THEN [u EXCEPT !.pc = "raised", !.err = "AttributeError"]
              ELSE [u EXCEPT !.events = Append(@, StepEvent(u.i, "running")),
                             !.pc = "run"]
         [] u.pc = "run" ->
              [u EXCEPT !.ran = Append(@, u.i), !.pc = "emit_result"]
         [] u.pc = "emit_result" ->
              IF emit_raises(Raw("execution_step"))
              THEN [u EXCEPT !.pc = "raised", !.err = "AttributeError"]
              ELSE LET u1 == [u EXCEPT
                                !.events = Append(@, StepEvent(u.i,
                                              IF ok THEN "success"
                                              ELSE "failed"))]
                   IN IF ~ok
                      THEN [u1 EXCEPT !.overall_success = FALSE,
                                      !.pc = "finish"]
                      ELSE IF u.i = Len(u.steps)
                      THEN [u1 EXCEPT !.pc = "finish"]
                      ELSE [u1 EXCEPT !.i = @ + 1, !.pc = "emit_running"]
         [] u.pc = "finish" ->
              LET u1 == [u EXCEPT !.execution_success = u.overall_success]
              IN IF emit_raises(Member("execution"))
                 THEN [u1 EXCEPT !.pc = "raised", !.err = "AttributeError"]
                 ELSE [u1 EXCEPT !.pc = "returned"]

ExecutorInit ==
    /\ NoRun("unit")
    /\ bus = BusIdle
    /\ factory = FactoryIdle
    /\ \E steps \in ExecutionPlans : unit = PlanExecution(steps)

ExecuteStep ==
    /\ unit.op = "execute"
    /\ unit.pc \notin {"returned", "raised"}
    /\ unit' = executor_step(unit)
    /\ UNCHANGED RunVars
    /\ UNCHANGED <<bus, factory>>

ExecutorNext == ExecuteStep

ExecutorSpec == ExecutorInit /\ [][ExecutorNext]_vars

(***************************************************************************)
(* agents/base.py: BaseAgent.call_llm_with_json_retry                      *)
(***************************************************************************)
JSON_PARSE_RETRY_POLICY == RetryPolicy(2, 1, 30, 2)

\* the exception types named by the except clause around parse_func
ParseErrorTypes == {"JSONDecodeError", "ValueError", "KeyError", "TypeError"}

\* texts of the exceptions a parser raises, one for each fix prompt template
ParseErrorTexts == {{}, {"JSONDecodeError:"}, {"SyntaxError:"}, {"TypeError:"}}

\* what one turn can meet: call_llm raises; the parser returns a value,
\* returns None, or raises
ParseOutcomes ==
    [kind : {"llm_raises", "parsed", "none"}, type : {""}, text : {{}}]
    \cup [kind : {"raises"}, type : ParseErrorTypes \cup {"AttributeError"},
          text : ParseErrorTexts]

ChatMessage(role, kind, about, n) ==
    [role |-> role, kind |-> kind, about |-> about, n |-> n]

\* the messages the caller passes
PromptMessages ==
    <<ChatMessage("system", "prompt", "", 0), ChatMessage("user", "task", "", 0)>>

\* get_fix_prompt: the template of the error's category
get_fix_prompt(classified) == ChatMessage("user", "fix", classified.category, 0)

NoJsonRetry ==
    [op |-> "json_retry", pc |-> "trying", attempt |-> 0, calls |-> 0,
     messages |-> PromptMessages, response |-> 0, parsed |-> FALSE,
     last |-> "", exc |-> NoError]

\* variant: the fix prompt is appended after the last attempt as well
json_retry_attempt_always_fix(u, o) ==
    LET u1 == [u EXCEPT !.calls = @ + 1, !.last = o.kind]
        response == u.calls + 1
        e == IF o.kind = "none" THEN [type |-> "ValueError", text |-> {}]
             ELSE [type |-> o.type, text |-> o.text]
    IN IF o.kind = "llm_raises"
       THEN [u1 EXCEPT !.pc = "raised",
                       !.exc = [type |-> "LLMError", text |-> {}]]
       ELSE IF o.kind = "parsed"
       THEN [u1 EXCEPT !.pc = "returned", !.response = response,
                       !.parsed = TRUE]
       ELSE IF e.type \notin ParseErrorTypes
       THEN [u1 EXCEPT !.pc = "raised", !.exc = e]
       ELSE LET u2 == [u1 EXCEPT
                  !.messages = @ \o <<ChatMessage("assistant", "response", "",
                                                  response),
                                      get_fix_prompt(classify(e.text))>>,
                  !.attempt = @ + 1]
            IN IF u.attempt < JSON_PARSE_RETRY_POLICY.max_retries THEN u2
               ELSE [u2 EXCEPT !.pc = "raised",
                               !.exc = [type |-> "ValueError", text |-> {}]]

\* one turn of the loop of call_llm_with_json_retry: call_llm, parse_func,
\* and the except clause; o is what the turn meets
json_retry_attempt(u, o) ==
    LET u1 == [u EXCEPT !.calls = @ + 1, !.last = o.kind]
        response == u.calls + 1
        e == IF o.kind = "none" THEN [type |-> "ValueError", text |-> {}]
             ELSE [type |-> o.type, text |-> o.text]
    IN IF o.kind = "llm_raises"
       THEN [u1 EXCEPT !.pc = "raised",
                       !.exc = [type |-> "LLMError", text |-> {}]]
       ELSE IF o.kind = "parsed"
       THEN [u1 EXCEPT !.pc = "returned", !.response = response,
                       !.parsed = TRUE]
       ELSE IF e.type \notin ParseErrorTypes
       THEN [u1 EXCEPT !.pc = "raised", !.exc = e]
       ELSE IF u.attempt < JSON_PARSE_RETRY_POLICY.max_retries
       THEN [u1 EXCEPT
               !.messages = @ \o <<ChatMessage("assistant", "response", "",
                                               response),
                                   get_fix_prompt(classify(e.text))>>,
               !.attempt = @ + 1]
       ELSE [u1 EXCEPT !.pc = "raised",
                       !.exc = [type |-> "ValueError", text |-> {}]]

JsonRetryInit ==
    /\ NoRun("json_retry")
    /\ bus = BusIdle
    /\ factory = FactoryIdle
    /\ unit = NoJsonRetry

\* the loop runs while range(max_retries + 1) lasts
JsonRetryAttempt ==
    /\ status = "json_retry" /\ unit.pc = "trying"
    /\ unit.attempt <= JSON_PARSE_RETRY_POLICY.max_retries
    /\ \E o \in ParseOutcomes : unit' = json_retry_attempt(unit, o)
    /\ UNCHANGED RunVars
    /\ UNCHANGED <<bus, factory>>

JsonRetryNext == JsonRetryAttempt

JsonRetrySpec == JsonRetryInit /\ [][JsonRetryNext]_vars

(***************************************************************************)
(* One agent instance of graph.py shared by concurrent runs:               *)
(* BaseAgent._tokens_used under run_with_telemetry and call_llm            *)
(***************************************************************************)
\* completion_tokens of one answer
UsageTokens == {1, 2}

\* a run's view of the agent: where its invocation is, how many it has
\* made, the completion tokens its own LLM calls of this invocation got,
\* how many calls those were, and the tokens_used its last invocation passed
\* to emit_agent_end
NoAgentUse ==
    [pc |-> "idle", invocations |-> 0, calls |-> 0, own |-> 0, reported |-> 0]

\* BaseAgent.__init__: the instance is made once, when graph.py is imported
SharedAgent ==
    [op |-> "tokens", tokens_used |-> 0, run |-> [t \in Tasks |-> NoAgentUse]]

\* run_with_telemetry up to the await of invoke
invoke_begins(u, t) ==
    [u EXCEPT !.run[t] = [@ EXCEPT !.pc = "invoking",
                                   !.invocations = @ + 1,
                                   !.calls = 0, !.own = 0]]

\* call_llm got an answer with "usage": self._tokens_used += tokens
record_usage(u, t, tokens) ==
    [u EXCEPT !.tokens_used = @ + tokens,
              !.run[t].calls = @ + 1,
              !.run[t].own = @ + tokens]

\* the end of run_with_telemetry: self._tokens_used is passed to
\* emit_agent_end, and reset when that call returns; when it raises, the
\* except branch passes it again, and its reset is not reached either
invoke_ends(u, t) ==
    LET u1 == [u EXCEPT !.run[t].pc = "ended",
                        !.run[t].reported = u.tokens_used]
    IN IF emit_agent_end_raises THEN u1
       ELSE [u1 EXCEPT !.tokens_used = 0]

TokenInit ==
    /\ NoRun("tokens")
    /\ bus = BusIdle
    /\ factory = FactoryIdle
    /\ unit = SharedAgent

TokenStep(u) ==
    /\ status = "tokens"
    /\ unit' = u
    /\ UNCHANGED RunVars
    /\ UNCHANGED <<bus, factory>>

\* the node of run t calls run_with_telemetry of the agent
InvokeBegins(t) ==
    /\ unit.run[t].pc \in {"idle", "ended"}
    /\ unit.run[t].invocations < MaxInvocations
    /\ TokenStep(invoke_begins(unit, t))

\* an LLM call of the invocation of run t returns
LLMAnswers(t) ==
    /\ unit.run[t].pc = "invoking"
    /\ unit.run[t].calls < MaxLLMCalls
    /\ \E tokens \in UsageTokens : TokenStep(record_usage(unit, t, tokens))

\* invoke of run t has returned or raised
InvokeEnds(t) ==
    /\ unit.run[t].pc = "invoking"
    /\ TokenStep(invoke_ends(unit, t))

TokenNext ==
    \E t \in Tasks : InvokeBegins(t) \/ LLMAnswers(t) \/ InvokeEnds(t)

TokenSpec == TokenInit /\ [][TokenNext]_vars

(***************************************************************************)
(* Properties                                                              *)
(***************************************************************************)

\* C1: in every state of a run, 0 <= error_count <= max_retries and
\* 0 <= review_attempts <= max_review_attempts.
C1_CountersWithinCaps ==
    /\ 0 <= state.error_count /\ state.error_count <= state.max_retries
    /\ 0 <= state.review_attempts
    /\ state.review_attempts <= state.max_review_attempts

\* a run whose retry counter has reached its cap
C1_Witness ==
    /\ status = "running" /\ node = "END"
    /\ state.error_count = state.max_retries

\* C2: every run terminates (the graph reaches END or is stopped by the
\* recursion limit) and never makes more than RecursionLimit = 50 node
\* invocations; indeed a run makes at most one Architect invocation and three
\* invocations per execution round, 1 + 3 * (max_retries + 1) in all.
C2_RunTerminatesWithinBound ==
    /\ [](step <= RecursionLimit /\ step <= 1 + 3 * (state.max_retries + 1))
    /\ <>(status \in {"returned", "raised"})

\* a run that has ended after using all its execution rounds
C2_Witness ==
    /\ status = "returned"
    /\ step = 1 + 3 * (state.max_retries + 1)

\* C3: after Reviewer the next node is Executor when review_passed, else
\* Coder when review_attempts < max_review_attempts, else Executor; nothing
\* else can follow Reviewer.
C3_RouteAfterReviewer ==
    [][(status = "unit" /\ node = "reviewer" /\ status' = "routed") =>
         /\ node' \in {"executor", "coder"}
         /\ state.review_passed => node' = "executor"
         /\ (~state.review_passed
             /\ state.review_attempts < state.max_review_attempts)
            => (node' = "coder" /\ route' = "fix")
         /\ (~state.review_passed
             /\ state.review_attempts >= state.max_review_attempts)
            => node' = "executor"]_vars

\* a failed review at the cap that was routed to Executor all the same
C3_Witness ==
    /\ status = "routed" /\ route = "execute" /\ node = "executor"
    /\ ~state.review_passed
    /\ state.review_attempts = state.max_review_attempts

\* C4: after Executor the run ends when execution_success; else, when
\* error_count < max_retries, error_count grows by exactly 1, review_attempts
\* becomes 0, review_passed becomes false and the next node is Coder; else the
\* run ends.
C4_RouteAfterExecutor ==
    [][(status = "unit" /\ node = "executor" /\ status' = "routed") =>
         /\ state.execution_success => (node' = "END" /\ state' = state)
         /\ (~state.execution_success
             /\ state.error_count < state.max_retries)
            => /\ node' = "coder"
               /\ state'.error_count = state.error_count + 1
               /\ state'.review_attempts = 0
               /\ state'.review_passed = FALSE
         /\ (~state.execution_success
             /\ state.error_count >= state.max_retries)
            => (node' = "END" /\ state' = state)]_vars

\* a retry that reset a review counter that was not 0
C4_Witness ==
    /\ status = "routed" /\ route = "retry" /\ node = "coder"
    /\ state.error_count = 2 /\ state.review_attempts = 0
    /\ ~state.review_passed

\* C5: when run_with_telemetry raises, the node returns normally, with the
\* agent's neutral mutation in the state and with exactly one history entry
\* appended by the bypass: the last one, naming the agent, with action
\* "bypass" (Architect, Reviewer) or "crash" (Coder, Executor).
C5_CrashBypass ==
    [][(step' = step + 1 /\ raised') =>
         LET h0 == state.history
             h1 == state'.history
             added == {i \in (Len(h0) + 1)..Len(h1) :
                         h1[i].action \in {"bypass", "crash"}}
         IN /\ status' = "running"
            /\ Len(h1) > Len(h0)
            /\ SubSeq(h1, 1, Len(h0)) = h0
            /\ added = {Len(h1)}
            /\ h1[Len(h1)].agent = node
            /\ h1[Len(h1)].action = IF node \in {"architect", "reviewer"}
                                    THEN "bypass" ELSE "crash"
            /\ node = "architect" => Len(state'.plan.subtasks) = 1
            /\ node = "reviewer" =>
                 /\ state'.review_passed
                 /\ state'.review_feedback = "Skipped due to error"
            /\ node = "coder" =>
                 (state'.code = "" /\ ~state'.execution_success)
            /\ node = "executor" =>
                 /\ ~state'.execution_success
                 /\ state'.execution_output = "Executor error"]_vars

\* every one of the four bypasses has been taken in the run
C5_Witness ==
    /\ raised
    /\ \A a \in Agents :
         \E i \in 1..Len(state.history) :
           /\ state.history[i].agent = a
           /\ state.history[i].action \in {"bypass", "crash"}

C8_RetryLoopBounded ==
    /\ runs["executor"] <= state.max_retries + 1
    /\ runs["retry"] <= state.max_retries
    /\ (runs["executor"] = state.max_retries + 1 /\ node # "executor")
       => /\ node = "END"
          /\ ~state.execution_success
          /\ state.error_count = state.max_retries
          /\ state.history # <<>>

\* a run that used every retry and then returned
C8_Witness ==
    /\ status = "returned"
    /\ runs["retry"] = state.max_retries
    /\ runs["executor"] = state.max_retries + 1

\* C9: every node invocation appends exactly one history entry, and that
\* entry names the agent of the node.
C9_OneEntryPerInvocation ==
    [][step' = step + 1 =>
         /\ Len(state'.history) = Len(state.history) + 1
         /\ SubSeq(state'.history, 1, Len(state.history)) = state.history
         /\ state'.history[Len(state'.history)].agent = node]_vars

\* C10: when the first code fails at execution and the regenerated code runs
\* well, the run ends with error_count = 1 and success; when the first code
\* is rejected by Reviewer and the regenerated code is clean and runs well,
\* the run ends with review_attempts = 2 and success.
C10_RepairLoopsSucceed ==
    status = "returned" =>
      /\ (/\ Len(cmd_results) >= 2
          /\ ~cmd_results[1] /\ cmd_results[2])
         => (state.error_count = 1 /\ state.execution_success)
      /\ (/\ Len(llm_outputs) >= 2 /\ Len(cmd_results) >= 1
          /\ llm_outputs[1] = "bad" /\ llm_outputs[2] = "good"
          /\ cmd_results[1])
         => (state.review_attempts = 2 /\ state.execution_success)

\* the events of type ty among the events es
OfType(es, ty) == {i \in 1..Len(es) : es[i].type.value = ty}

\* C11: every run ends with a terminal complete event: when run_orchestration
\* has returned or raised, the run has emitted exactly one complete event and
\* it is the last event the run emitted.
C11_CompleteIsLast ==
    \A t \in Tasks :
      bus.task[t].pc \in {"returned", "raised"} =>
        LET es == bus.task[t].emitted
        IN /\ OfType(es, "complete") = {Len(es)}

\* the events of the last agent invocation of task t
InvocationEvents(t) ==
    SubSeq(bus.task[t].emitted, bus.task[t].inv.first,
           Len(bus.task[t].emitted))

\* C12: an invocation through run_with_telemetry emits agent_start first;
\* when invoke returned it emits exactly one agent_end, with success = true,
\* and returns; when invoke raised it emits agent_end with success = false,
\* then error, and raises the exception invoke raised.
C12_TelemetryProtocol ==
    \A t \in Tasks :
      (bus.task[t].pc = "graph" /\ bus.task[t].inv.agent # "") =>
        LET inv == bus.task[t].inv
            es == InvocationEvents(t)
            n == Len(es)
        IN /\ n >= 1
           /\ es[1] = Event(Member("agent_start"), inv.agent, "")
           /\ ~inv.invoke_raised =>
                /\ ~inv.raised
                /\ Cardinality(OfType(es, "agent_end")) = 1
                /\ \A i \in OfType(es, "agent_end") : es[i].data = "true"
           /\ inv.invoke_raised =>
                /\ inv.raised /\ inv.err = inv.invoke_err
                /\ n >= 3
                /\ IF n >= 3
                   THEN /\ es[n - 1] = Event(Member("agent_end"), inv.agent,
                                             "false")
                        /\ es[n].type.value = "error"
                   ELSE FALSE

\* C13: when an emit returns, every connection it had copied either got the
\* message or is in its failed list, whatever happened to the others; the
\* emit has not raised; every connection whose send failed is out of the
\* subscriber list, and every other connection that was in it still is.
C13_FailureIsolation ==
    [][\A t \in Tasks :
         (bus.task[t].em.active /\ ~bus'.task[t].em.active) =>
           LET em == bus'.task[t].em
               failed == Range(em.failed)
           IN /\ Range(em.conns) = em.sent \cup failed
              /\ em.sent \cap failed = {}
              /\ \A s \in em.sent :
                   bus'.sink[s] = "open" =>
                     Len(bus'.task[t].emitted) \in Range(bus'.received[s][t])
              /\ bus'.task[t].pc \in {"busy", bus.task[t].then}
              /\ bus'.task[t].pc # "raised" \/ bus.task[t].then = "raised"
              /\ \A s \in failed : s \notin Range(bus'.connections)
              /\ bus'.connections = Without(bus.connections, failed)]_vars

\* an emit has returned whose first connection failed and whose second got
\* the message and is still subscribed
C13_Witness ==
    \E t \in Tasks :
      LET em == bus.task[t].em
      IN /\ ~em.active /\ Len(em.conns) = 2
         /\ em.failed = <<em.conns[1]>>
         /\ em.sent = {em.conns[2]}
         /\ em.conns[2] \in Range(bus.connections)
         /\ em.conns[1] \notin Range(bus.connections)

\* is the emit in flight of task t still to send to sink s
Pending(t, s) ==
    LET em == bus.task[t].em
    IN em.active /\ \E j \in em.i..Len(em.conns) : em.conns[j] = s

\* C14: at every sink the events of one task arrive in emission order and
\* none twice; a sink that is subscribed and healthy has got every event the
\* task emitted since the sink connected, but for one still being sent to it.
C14_PerSinkOrder ==
    \A s \in Sinks, t \in Tasks :
      LET r == bus.received[s][t]
          lo == bus.joined[s][t]
          hi == IF Pending(t, s) THEN Len(bus.task[t].emitted) - 1
                ELSE Len(bus.task[t].emitted)
      IN /\ \A i, j \in 1..Len(r) : i < j => r[i] < r[j]
         /\ (bus.sink[s] = "open" /\ s \in Range(bus.connections)) =>
              r = [k \in 1..(hi - lo) |-> lo + k]

\* a sink has got two events of each of two tasks while another sink failed
C14_Witness ==
    \E s \in Sinks :
      /\ bus.sink[s] = "open"
      /\ \A t \in Tasks : Len(bus.received[s][t]) >= 2
      /\ \E o \in Sinks : bus.sink[o] = "gone"

\* this step is a call of complete_with_fallback, up to its first await
Called ==
    /\ status = "factory"
    /\ factory'.op = "complete_with_fallback"
    /\ factory'.calls = factory.calls + 1

\* this step is the rest of a call that was retrying / sleeping
Resumed(pc) ==
    /\ status = "factory"
    /\ factory.call.pc = pc
    /\ factory'.call.pc = "done"

\* C15: get_client returns the cached active client unchanged when its probe
\* succeeds; otherwise it probes the primary and activates it if healthy;
\* otherwise, with a fallback URL, it probes the fallback and activates it if
\* healthy; otherwise it activates the primary.  The client it returns is
\* _active_client.
C15_GetClientSelection ==
    [][(status = "factory" /\ factory'.op = "get_client") =>
         LET f == factory
             g == factory'
             ps == g.got.probes
             cached == f.active_client # "none"
             rest == IF cached THEN Tail(ps) ELSE ps
         IN /\ g.got.client = g.active_client
            /\ ps # <<>>
            /\ cached => ps[1][1] = f.active_client
            /\ IF cached /\ ps[1][2]
               THEN /\ Len(ps) = 1
                    /\ g.active_client = f.active_client
               ELSE /\ rest # <<>>
                    /\ rest[1][1] = "primary"
                    /\ IF rest[1][2]
                       THEN Len(rest) = 1 /\ g.active_client = "primary"
                       ELSE IF f.fallback_url
                       THEN /\ Len(rest) = 2
                            /\ rest[2][1] = "fallback"
                            /\ g.active_client = IF rest[2][2]
                                                 THEN "fallback"
                                                 ELSE "primary"
                       ELSE Len(rest) = 1 /\ g.active_client = "primary"]_vars

\* the cached primary and the primary have failed their probes and the
\* fallback has been activated
C15_Witness ==
    /\ factory.op = "get_client"
    /\ factory.got = [client |-> "fallback",
                      probes |-> <<<<"primary", FALSE>>, <<"primary", FALSE>>,
                                   <<"fallback", TRUE>>>>]
    /\ factory.active_client = "fallback"

\* C16: when the completion fails with an OOM message, the OOM budget is not
\* used up and a smaller tier exists, _current_tier moves exactly one step
\* down, request.model becomes that tier's model and the request is retried
\* exactly once, at that tier; from large, a retry that succeeds returns one
\* response with _current_tier = "medium".
C16_OOMDowngrade ==
    [][/\ (/\ Called
           /\ is_oom(factory'.call.error)
           /\ factory.oom_count + 1 <= MaxOOMFallbacks
           /\ factory.current_tier # "small")
          => /\ factory.current_tier = "large"
                  => factory'.current_tier = "medium"
             /\ factory.current_tier = "medium"
                  => factory'.current_tier = "small"
             /\ factory'.call.model = TierModel(factory'.current_tier)
             /\ factory'.call.pc = "retrying"
             /\ factory'.call.completes = 1
       /\ Resumed("retrying")
          => /\ factory'.call.completes = 2
             /\ factory'.current_tier = factory.current_tier
             /\ factory'.call.model = TierModel(factory.current_tier)
             /\ factory'.call.result = "response" => factory'.call.exc = ""]_vars

\* CUDA out of memory at tier large, and the retry at medium has answered
C16_Witness ==
    /\ factory.call.pc = "done" /\ factory.call.result = "response"
    /\ factory.call.error = "CUDA out of memory"
    /\ factory.call.completes = 2
    /\ factory.current_tier = "medium"
    /\ factory.call.model = "microsoft/phi-2"

\* C17: an OOM failure that finds the OOM budget used up, or no smaller tier,
\* makes complete_with_fallback raise OOMError with _current_tier unchanged
\* and the request not reissued; and whenever complete_with_fallback ends on
\* an OOM failure, what it raises is OOMError.
C17_OOMExhaustion ==
    [][/\ (/\ Called
           /\ is_oom(factory'.call.error)
           /\ \/ factory.oom_count + 1 > MaxOOMFallbacks
              \/ factory.current_tier = "small")
          => /\ factory'.call.pc = "done"
             /\ factory'.call.result = "raised"
             /\ factory'.call.exc = "OOMError"
             /\ factory'.current_tier = factory.current_tier
             /\ factory'.call.completes = 1
       /\ (/\ status = "factory"
           /\ factory.call.pc # "done" /\ factory'.call.pc = "done"
           /\ factory'.call.result = "raised"
           /\ is_oom(factory'.call.msg))
          => factory'.call.exc = "OOMError"]_vars

\* what _handle_disconnect does up to its sleep, given whether a full queue
\* drops the request (bounded) or not
DisconnectBegins(bounded) ==
    LET f == factory
        g == factory'
    IN /\ g.reconnect_attempts \in {f.reconnect_attempts + 1, 1}
       /\ IF g.reconnect_attempts > MaxReconnectAttempts
          THEN /\ g.call.pc = "done" /\ g.call.result = "raised"
               /\ g.call.exc = "InferenceDisconnectError"
               /\ g.call.completes = 1
               /\ g.request_queue = f.request_queue
          ELSE /\ g.call.pc = "sleeping"
               /\ g.request_queue =
                    IF bounded /\ Len(f.request_queue) >= MaxQueueSize
                    THEN f.request_queue
                    ELSE Append(f.request_queue, g.call.request)
               /\ g.call.delay = Min(2 ^ g.reconnect_attempts, 30)

\* what _handle_disconnect does after its sleep
DisconnectEnds ==
    LET f == factory
        g == factory'
    IN /\ g.reconnect_attempts = f.reconnect_attempts
       /\ g.active_client # "none"
       /\ \/ g.call.completes = 2
          \/ /\ g.call.completes = 1
             /\ g.call.result = "raised"
             /\ g.call.exc = "InferenceDisconnectError"

\* C18: on a completion failure whose message contains "connection" or
\* "timeout", complete_with_fallback increments _reconnect_attempts; if that
\* exceeds max_reconnect_attempts it raises InferenceDisconnectError without
\* retrying; otherwise it enqueues the request, sleeps min(2^attempts, 30)
\* seconds, re-selects a client and retries the request if that client is
\* healthy, else raises InferenceDisconnectError without retrying.
C18_DisconnectHandling ==
    [][/\ (Called /\ is_disconnect(factory'.call.error))
          => DisconnectBegins(FALSE)
       /\ Resumed("sleeping") => DisconnectEnds]_vars

\* C18 as amended: the same for a message that contains "connection" or
\* "timeout" and none of the OOM keywords, the request being enqueued unless
\* the queue already holds max_queue_size requests.
C18_DisconnectHandlingAmended ==
    [][/\ (/\ Called
           /\ is_disconnect(factory'.call.error)
           /\ ~is_oom(factory'.call.error))
          => DisconnectBegins(TRUE)
       /\ Resumed("sleeping") => DisconnectEnds]_vars

\* a request has been retried and answered after the longest sleep
C18_Witness ==
    /\ factory.call.pc = "done" /\ factory.call.result = "response"
    /\ factory.call.error = "Connection refused"
    /\ factory.call.delay = MaxBackoff
    /\ factory.call.completes = 2
    /\ factory.reconnect_attempts = MaxReconnectAttempts

\* C19: when complete_with_fallback has hit a disconnect, queued the request,
\* reconnected, reissued it and returned its response, then
\* _reconnect_attempts >= 1 and the request is no longer in the queue.
C19_QueueDrained ==
    (/\ factory.op = "complete_with_fallback"
     /\ factory.call.pc = "done" /\ factory.call.result = "response"
     /\ factory.call.enqueued /\ factory.call.completes = 2)
    => /\ factory.reconnect_attempts >= 1
       /\ factory.call.request \notin Range(factory.request_queue)

Requests(issued) == [i \in 1..Len(issued) |-> issued[i][1]]
Answered(issued) == Requests(SelectSeq(issued, LAMBDA e : e[3]))
IsPrefix(a, b) == Len(a) <= Len(b) /\ SubSeq(b, 1, Len(a)) = a

\* C21: process_queue terminates with an empty queue; each turn issues the
\* request at the head of the queue, once, against the client get_client
\* returned, and takes it off the queue whether or not its completion fails;
\* at the return the requests found queued have been issued in FIFO order and
\* the results are the answered requests in that order.
C21_ProcessQueueDrains ==
    /\ [][ /\ unit.pc = "loop" /\ unit'.issued # unit.issued
              => LET e == unit'.issued[Len(unit'.issued)]
                 IN /\ unit'.issued = Append(unit.issued, e)
                    /\ e[1] = Head(factory.request_queue)
                    /\ factory'.request_queue = Tail(factory.request_queue)
                    /\ e[2] = factory'.active_client
                    /\ unit'.pc = "loop"
                    /\ unit'.results = IF e[3] THEN Append(unit.results, e[1])
                                       ELSE unit.results
           /\ unit.pc = "loop" /\ unit'.pc = "returned"
              => /\ factory'.request_queue = <<>>
                 /\ IsPrefix(unit.queued, Requests(unit'.issued))
                 /\ Cardinality(Range(Requests(unit'.issued)))
                      = Len(unit'.issued)
                 /\ unit'.results = Answered(unit'.issued) ]_vars
    /\ (unit.pc = "loop") ~> (unit.pc = "returned")

\* the call returned after a failed completion in the middle, a success
\* after it, and a request that was queued while it was draining
C21_Witness ==
    /\ unit.op = "process_queue" /\ unit.pc = "returned"
    /\ Len(unit.queued) = MaxQueued
    /\ Len(unit.issued) > Len(unit.queued)
    /\ \E i, j \in 1..Len(unit.issued) :
         i < j /\ ~unit.issued[i][3] /\ unit.issued[j][3]

\* C22: on every connection error and every timeout error of the POST,
\* call_llm sleeps the policy's delay and retries, up to 5 retries (6 POSTs),
\* and returns the first answer; any other error propagates at once.
C22_CallLLMRetry ==
    [][unit.op = "call_llm" /\ unit.pc = "trying"
       => LET e == unit'.err
          IN /\ unit'.posts = unit.posts + 1
             /\ unit'.posts <= CONNECTION_RETRY_POLICY.max_retries + 1
             /\ e = NoError
                => unit'.pc = "done" /\ unit'.result = "content"
             /\ e.type \in RetriedTypes
                => IF unit.posts < CONNECTION_RETRY_POLICY.max_retries
                   THEN /\ unit'.pc = "trying"
                        /\ unit'.delays
                             = Append(unit.delays,
                                      get_delay(CONNECTION_RETRY_POLICY,
                                                unit.posts))
                   ELSE /\ unit'.pc = "done" /\ unit'.result = "raised"
                        /\ unit'.exc = e
             /\ e # NoError /\ e.type \notin RetriedTypes
                => /\ unit'.pc = "done" /\ unit'.result = "raised"
                   /\ unit'.exc = e /\ unit'.delays = unit.delays]_vars

\* the tokens of the content fragments among the first n lines of a stream
ContentTokens(lines, n) ==
    LET at == SelectSeq([j \in 1..n |-> j],
                        LAMBDA j : lines[j] \in {"content", "empty"})
    IN [k \in 1..Len(at) |-> TokenAt(lines[at[k]], at[k])]

\* C23: call_llm_streaming emits exactly one token event per content
\* fragment it received, in the order received, each carrying the token and
\* the file_path of the call, and returns the accumulated tokens; when the
\* stream fails at any point the call goes on in call_llm and ends with what
\* call_llm returns or raises.
C23_Streaming ==
    /\ [](unit.op = "call_llm_streaming"
          => /\ unit.emitted
                  = [k \in 1..Len(ContentTokens(unit.lines, unit.i)) |->
                       Event(Member("token"), unit.agent,
                             [token |-> ContentTokens(unit.lines, unit.i)[k],
                              file_path |-> unit.file_path])]
             /\ unit.pc = "done" /\ unit.llm.posts = 0
                => /\ unit.result = "content"
                   /\ unit.text = ContentTokens(unit.lines, unit.i)
                   /\ unit.i = Len(unit.lines) \/ unit.lines[unit.i] = "done"
             /\ unit.pc = "done" /\ unit.llm.posts > 0
                => unit.llm.pc = "done" /\ unit.result = unit.llm.result)
    /\ [][unit.op = "call_llm_streaming" /\ unit.pc = "streaming"
          /\ (\/ unit.breaks_at = unit.i
              \/ unit.i < Len(unit.lines) /\ unit.lines[unit.i + 1] = "null")
          => unit'.pc = "fallback" /\ unit'.emitted = unit.emitted]_vars

\* three tokens, the middle one empty, were emitted, then the transport
\* broke and call_llm answered at its second POST
C23_Witness ==
    /\ unit.op = "call_llm_streaming" /\ unit.pc = "done"
    /\ unit.lines = <<"content", "empty", "content">> /\ unit.breaks_at = 3
    /\ Len(unit.emitted) = 3
    /\ unit.result = "content" /\ unit.llm.posts = 2

\* the order in which the families are to be tried, and the strategy of
\* each category
Precedence == <<"parse", "timeout", "connection", "syntax", "runtime">>
StrategyOf(category) ==
    CASE category \in {"syntax", "runtime"} -> "fix"
      [] category = "parse" -> "reformat"
      [] category = "timeout" -> "retry"
      [] category = "connection" -> "reconnect"
      [] category = "unknown" -> "abort"

\* the families a text matches
Matched(text) == UNION {Matching(f) : f \in text}

\* C24: for every combination of families a text matches, classify returns
\* the first matching family in the order parse, timeout, connection,
\* syntax, runtime, or unknown when none matches, with the recovery strategy
\* that belongs to the category.
C24_ClassifyPrecedence ==
    unit.op = "classify" /\ unit.pc = "done"
    => LET hits == {i \in 1..Len(Precedence) :
                      Precedence[i] \in Matched(unit.text)}
           first == IF hits = {} THEN "unknown"
                    ELSE Precedence[CHOOSE i \in hits :
                                      \A j \in hits : i <= j]
       IN /\ unit.result.category = first
          /\ unit.result.recovery_strategy = StrategyOf(first)

\* a text that matches every family was classified, as parse
C24_Witness ==
    /\ unit.op = "classify" /\ unit.pc = "done"
    /\ Matched(unit.text) = Families
    /\ unit.result = ClassifiedError("parse", "reformat")

RECURSIVE Power(_, _)
Power(b, k) == IF k = 0 THEN 1 ELSE b * Power(b, k - 1)

Compresses ==
    unit'.op = "compress_context" /\ unit'.compressions # unit.compressions

\* the last n items of a sequence
Last(seq, n) == SubSeq(seq, Len(seq) - n + 1, Len(seq))

\* C26: compress_context(keep_recent) on a conversation longer than
\* keep_recent leaves one summary message (role system, compressed) followed
\* by the last keep_recent messages in their order, keep_recent + 1 messages
\* in all, and sets context_compressed; a conversation of at most keep_recent
\* messages is left unchanged.
C26_CompressContext ==
    [][Compresses
       => LET k == unit'.keep_recent
          IN IF Len(unit.messages) > k
             THEN /\ Len(unit'.messages) = k + 1
                  /\ unit'.messages[1].role = "system"
                  /\ unit'.messages[1].compressed
                  /\ Tail(unit'.messages) = Last(unit.messages, k)
                  /\ unit'.context_compressed
             ELSE /\ unit'.messages = unit.messages
                  /\ unit'.context_tokens = unit.context_tokens
                  /\ unit'.context_compressed = unit.context_compressed]_vars

\* C27: compress_context on a conversation that is already compressed and is
\* below max_context_tokens changes nothing: messages, context_tokens and
\* context_compressed are what they were.
C27_CompressIdempotent ==
    [][/\ Compresses
       /\ unit.context_compressed /\ ~should_compress_context(unit)
       /\ unit.messages # <<>> /\ unit.messages[1].compressed
       /\ unit.keep_recent = unit'.keep_recent
       => /\ unit'.messages = unit.messages
          /\ unit'.context_tokens = unit.context_tokens
          /\ unit'.context_compressed = unit.context_compressed]_vars

\* a resolved location lies in the workspace root directory
InWorkspace(loc) ==
    LET root == Resolve(WORKSPACE_DIR).parts
    IN Len(root) <= Len(loc.parts) /\ SubSeq(loc.parts, 1, Len(root)) = root

\* C28: for every path whose resolved location is not inside the workspace
\* root, a sibling directory with a longer name included, read_file returns
\* success = false with 'Access denied' and reads nothing, whether or not
\* the location exists.
C28_ReadFileSandbox ==
    unit.op = "read_file" /\ unit.pc = "done"
    /\ ~InWorkspace(Resolve(Join(WORKSPACE_DIR, unit.path)))
    => /\ ~unit.result.success
       /\ unit.result.error = "Access denied"
       /\ unit.result.read = NoPath

\* C29: every file Coder writes for a planned path resolves to a location
\* under the workspace root, whatever the path: with '..' or absolute.
C29_CoderWritesInWorkspace ==
    unit.op = "coder" => \A loc \in unit.written : InWorkspace(loc)

Whitelist == {"python", "python3", "pytest", "ruff"}

\* C30: on the single-file fallback path Executor runs no command on a
\* file_path outside the resolved workspace root, and argv[0] of what it
\* runs is one of python, python3, pytest, ruff.
C30_FallbackEnvelope ==
    unit.op = "executor" /\ unit.pc = "done" /\ unit.ran # NoCommand
    => /\ unit.ran[1] \in Whitelist
       /\ InWorkspace(Resolve(unit.ran[2]))

\* C31: the max_retries of the request bounds the run: the retry edge is
\* taken at most that many times and the `retries` of the response never
\* exceeds it
C31_RequestMaxRetries ==
    unit.op = "orchestrate" =>
        /\ runs["retry"] <= unit.max_retries
        /\ unit.responded => unit.retries <= unit.max_retries

\* C32: a Reviewer invocation that returns has incremented review_attempts
\* by exactly 1, whatever the code (empty code included), and has set
\* review_passed to true iff the checks found no issue
C32_ReviewerEffect ==
    (unit.op = "review" /\ unit.done /\ ~unit.result.raised) =>
        /\ unit.result.state.review_attempts = unit.before.review_attempts + 1
        /\ unit.result.state.review_passed <=> unit.before.code # "bad"

\* C33: review_passed is true after a Reviewer invocation only if every
\* generated file of the plan is free of issues, not only the last one
C33_ReviewerGatesEveryFile ==
    (unit.op = "review" /\ unit.done) =>
        (unit.result.state.review_passed =>
            \A i \in 1..Len(unit.before.planned_files) :
                unit.before.planned_files[i].generated =>
                    unit.before.planned_files[i].content # "bad")

\* the step at which the plan stops: its first failing step, or its last
RECURSIVE StopsAt(_, _)
StopsAt(steps, i) ==
    IF i >= Len(steps) \/ ~steps[i].ok THEN i ELSE StopsAt(steps, i + 1)

\* C34: the plan path of Executor runs the steps in plan order, up to and
\* including the first failing one and none after it; every step that is run
\* has its `running` event emitted before it and its one `success` or
\* `failed` event after it, before the next step starts; execution_success
\* is true iff every step of the plan was run and succeeded
C34_ExecutorPlanPath ==
    unit.op = "execute" =>
        LET steps == unit.steps
            ran == unit.ran
            es == unit.events
            ended == unit.pc \in {"returned", "raised"}
        IN /\ \A j \in 1..Len(ran) : ran[j] = j /\ j <= StopsAt(steps, 1)
           /\ \A j \in 1..Len(es) :
                es[j] = StepEvent((j + 1) \div 2,
                                  IF j % 2 = 1 THEN "running"
                                  ELSE IF steps[j \div 2].ok THEN "success"
                                  ELSE "failed")
           /\ 2 * Len(ran) - 1 <= Len(es) /\ Len(es) <= 2 * Len(ran) + 1
           /\ unit.execution_success <=>
                (Len(ran) = Len(steps) /\ \A j \in 1..Len(steps) : steps[j].ok
                 /\ unit.pc = "returned")
           /\ ended => Len(ran) = StopsAt(steps, 1)

\* C35: call_llm_with_json_retry makes at most max_retries + 1 = 3 LLM
\* calls; it returns the first response the parser accepts; every retry is
\* preceded by exactly two appended messages, the offending response as
\* assistant and a fix prompt as user, and nothing is appended otherwise;
\* it raises ValueError after the last failed attempt and only then
C35_JsonRetry ==
    unit.op = "json_retry" =>
        LET max == JSON_PARSE_RETRY_POLICY.max_retries
            n == Len(PromptMessages)
            failed == unit.last \in {"none", "raises"}
        IN /\ max = 2 /\ unit.calls <= max + 1
           /\ unit.attempt <= max
           /\ unit.pc = "trying" => unit.calls = unit.attempt
           /\ unit.pc # "trying" => unit.calls = unit.attempt + 1
           /\ Len(unit.messages) = n + 2 * unit.attempt
           /\ SubSeq(unit.messages, 1, n) = PromptMessages
           /\ \A k \in 1..unit.attempt :
                /\ unit.messages[n + 2 * k - 1]
                     = ChatMessage("assistant", "response", "", k)
                /\ unit.messages[n + 2 * k].role = "user"
                /\ unit.messages[n + 2 * k].kind = "fix"
           /\ unit.pc = "returned" <=> unit.last = "parsed"
           /\ unit.pc = "returned" =>
                unit.parsed /\ unit.response = unit.calls
           /\ (unit.pc = "raised" /\ unit.exc.type = "ValueError")
                <=> (unit.calls = max + 1 /\ failed
                     /\ unit.exc.type \in ParseErrorTypes)

\* three attempts failed: two retries, four appended messages, ValueError
C35_Witness ==
    /\ unit.op = "json_retry" /\ unit.pc = "raised"
    /\ unit.calls = 3 /\ unit.exc.type = "ValueError"
    /\ Len(unit.messages) = Len(PromptMessages) + 4

\* how often x occurs in seq
Occurrences(seq, x) == Cardinality({i \in 1..Len(seq) : seq[i] = x})

\* C36: with connect, disconnect and emit interleaving at their awaits, an
\* emit in flight keeps iterating over the list it copied and does not fail;
\* it makes one send attempt per copied sink; a sink that stayed subscribed
\* and whose send succeeded has the event exactly once, no sink has it
\* twice, and a sink that was not subscribed when the emit started (it had
\* disconnected, or connects later) gets nothing from it
C36_BusInterleaving ==
    /\ [](\A t \in Tasks :
            LET em == bus.task[t].em
                n == Len(bus.task[t].emitted)
                tried == {em.conns[j] : j \in 1..(em.i - 1)}
            IN /\ \A i, j \in 1..Len(em.conns) :
                    em.conns[i] = em.conns[j] => i = j
               /\ em.i >= 1 => tried = em.sent \cup Range(em.failed)
               /\ em.sent \cap Range(em.failed) = {}
               /\ ~em.active => em.i \in {0, Len(em.conns) + 1}
               /\ \A s \in Sinks :
                    /\ Occurrences(bus.received[s][t], n) <= 1
                    /\ n \in Range(bus.received[s][t]) => s \in em.sent
                    /\ (s \in tried /\ bus.sink[s] = "open") =>
                         Occurrences(bus.received[s][t], n) = 1)
    /\ [][\A t \in Tasks :
            LET em == bus.task[t].em
                em1 == bus'.task[t].em
            IN /\ (em.active /\ em1.active
                   /\ Len(bus'.task[t].emitted) = Len(bus.task[t].emitted)) =>
                     em1.conns = em.conns /\ em1.i >= em.i
               /\ em.active =>
                     (bus'.task[t].pc # "raised" \/ bus.task[t].then = "raised")
               /\ Len(bus'.task[t].emitted) > Len(bus.task[t].emitted) =>
                     \A s \in Sinks :
                        s \notin Range(bus.connections) =>
                           s \notin Range(em1.conns) \cup em1.sent]_vars

\* an emit is half-way through the list it copied while the handler of its
\* second sink has disconnected it and another task's emit is in flight too
C36_Witness ==
    \E t, o \in Tasks :
      LET em == bus.task[t].em
      IN /\ t # o /\ em.active /\ bus.task[o].em.active
         /\ Len(em.conns) = 2 /\ em.i = 2
         /\ em.sent = {em.conns[1]}
         /\ bus.sink[em.conns[2]] = "gone"
         /\ bus.connections = <<em.conns[1]>>

\* C37: _current_tier never moves to a larger tier, whatever is called and
\* whether or not the OOM counter was reset in between; and once it is
\* "small", a call that ends on an OOM failure ends with OOMError
C37_TierSticky ==
    [][status = "factory" =>
         /\ TierIndex(factory'.current_tier) >= TierIndex(factory.current_tier)
         /\ (/\ factory.current_tier = "small"
             /\ factory.call.pc # "done" \/ Called
             /\ factory'.call.pc = "done"
             /\ factory'.call.result = "raised"
             /\ is_oom(factory'.call.msg))
            => factory'.call.exc = "OOMError"]_vars

\* the concatenation of a sequence of tokens: empty tokens add nothing
Concat(tokens) == SelectSeq(tokens, LAMBDA x : x # "")

\* C38: when call_llm_streaming returns a text, the tokens of the token
\* events it emitted, concatenated in emission order, are that text, whether
\* the stream ended or the call fell back to call_llm
C38_TokensAgreeWithResult ==
    (unit.op = "call_llm_streaming" /\ unit.pc = "done"
     /\ unit.result = "content") =>
        Concat([k \in 1..Len(unit.emitted) |-> unit.emitted[k].data.token])
            = Concat(unit.text)

\* C39: the tokens_used an invocation reports at its end is the sum of the
\* completion tokens of its own LLM calls; an LLM call or the end of an
\* invocation of one run leaves the count of another run's invocation in
\* flight as it was
C39_TokenAccounting ==
    /\ [](unit.op = "tokens" =>
            \A t \in Tasks :
               unit.run[t].pc = "ended" =>
                  unit.run[t].reported = unit.run[t].own)
    /\ [][unit.op = "tokens" =>
            \A t \in Tasks :
               (/\ unit.run[t].pc = "invoking"
                /\ unit'.run[t] = unit.run[t]) =>
                  unit'.tokens_used = unit.tokens_used]_vars

\* C40: should_execute_or_fix leaves the state as it was; should_retry_or_end
\* leaves it as it was unless it returns "retry", and then changes nothing
\* but error_count, review_attempts and review_passed
C40_RoutingFrame ==
    [][/\ (status = "unit" /\ node = "reviewer" /\ status' = "routed")
          => state' = state
       /\ (status = "unit" /\ node = "executor" /\ status' = "routed")
          => /\ route' # "retry" => state' = state
             /\ route' = "retry" =>
                  [state' EXCEPT !.error_count = state.error_count,
                                 !.review_attempts = state.review_attempts,
                                 !.review_passed = state.review_passed]
                    = state]_vars

\* a retry was routed on a state that carried code, output and history, and
\* it changed all three of the fields it may change
C40_Witness ==
    /\ status = "routed" /\ route = "retry"
    /\ state.code = "good" /\ state.execution_output = "output"
    /\ Len(state.history) = 1
    /\ state.error_count = 3
    /\ state.review_attempts = 0 /\ ~state.review_passed

====
